---- MODULE Spec2Model ----
(***************************************************************************)
(* Verification model of the AI analysis engine of the finance app         *)
(* (src/lambda_ai): the orchestrator pipeline run_analysis, the Lambda     *)
(* entry point lambda_handler, LLMEnricher.enrich, AnomalyDetector.detect  *)
(* and ForecastEngine.forecast.                                            *)
(*                                                                         *)
(* Text is modelled as a record [tok, len]: tok identifies the characters  *)
(* (two texts with the same tok are prefixes of one another) and len is    *)
(* the number of characters, so that slicing s[:k] keeps tok and cuts len. *)
(***************************************************************************)
EXTENDS Integers, Sequences, FiniteSets, TLC

VARIABLES
    entry,          \* which function was invoked: "run_analysis" | "lambda_handler"
    pc,             \* position inside the invoked function
    payload,        \* the parsed payload
    anomalies,      \* run_analysis: anomalies
    forecast,       \* run_analysis: forecast
    all_patterns,   \* run_analysis: all_patterns (key -> result)
    all_insights,   \* run_analysis: all_insights (list of cards)
    health_score,   \* run_analysis: health_score
    coach,          \* run_analysis: coach
    next_actions,   \* run_analysis: next_actions
    response,       \* the value returned to the caller
    executed,       \* stages that ran to completion or raised, in order
    failed,         \* stages whose exception was caught by their try/except
    contributed,    \* stage -> number of cards it appended to all_insights
    llm_calls,      \* number of invoke_model calls made
    answer,         \* what the text-generation model does in the enrichment call
    e_pc,           \* LLMEnricher.enrich called on its own: "call" | "returned"
    e_in,           \* its insights argument, as it was before the call
    e_fc,           \* its forecast argument
    e_ans,          \* what the model does
    e_out,          \* the returned (insights, coach, llm_obs)
    d_pc,           \* AnomalyDetector.detect called on its own
    transactions,   \* its transactions argument
    detected,       \* its outcome: the returned list, or the exception
    f_pc,           \* ForecastEngine.forecast called on its own
    monthly_totals, \* its monthly_totals argument
    fc_out,         \* the returned forecast
    c_pc,           \* a helper function called on its own: "call" | "returned"
    c_in,           \* its arguments
    c_out           \* the value it returned

runVars == <<entry, pc, payload, anomalies, forecast, all_patterns, all_insights,
             health_score, coach, next_actions, response, executed, failed,
             contributed, llm_calls, answer>>
enrVars == <<e_pc, e_in, e_fc, e_ans, e_out>>
detVars == <<d_pc, transactions, detected>>
fcVars == <<f_pc, monthly_totals, fc_out>>
callVars == <<c_pc, c_in, c_out>>
vars == <<runVars, enrVars, detVars, fcVars, callVars>>

----------------------------------------------------------------------------
(* Bounds of the model *)

MaxDetected == 11      \* longest anomaly list drawn as a result of detect
MaxBudgets  == 7       \* longest budgets list in a payload
MaxCards    == 2       \* longest card list handed to enrich on its own
MaxEnrichments == 2    \* longest card_enrichments list in a model output
MaxBase     == 7       \* transactions of the fixed head of a transaction list
MaxExtras   == 2       \* freely chosen transactions at the end of a list
MaxMonths   == 3       \* longest monthly_totals list given to forecast

----------------------------------------------------------------------------
(* Generic helpers *)

Min(a, b) == IF a <= b THEN a ELSE b
Max(a, b) == IF a >= b THEN a ELSE b

\* Python's s[:k] on a list
Take(s, k) == SubSeq(s, 1, Min(Len(s), k))

\* Python's s[:k] on text
Prefix(s, k) == [tok |-> s.tok, len |-> Min(s.len, k)]

Str(tok, len) == [tok |-> tok, len |-> len]

RECURSIVE Concat(_)
Concat(ss) == IF ss = <<>> THEN <<>> ELSE Head(ss) \o Concat(Tail(ss))

\* the elements of s that satisfy Test, in order (a list comprehension with if)
RECURSIVE SelectIdx(_, _, _)
SelectIdx(s, Test(_), i) ==
    IF i > Len(s) THEN <<>>
    ELSE (IF Test(s[i]) THEN <<s[i]>> ELSE <<>>) \o SelectIdx(s, Test, i + 1)

\* ai_utils.clamp
clamp(v, lo, hi) == Max(lo, Min(hi, v))

\* ai_utils.confidence with the signal strength given as the fraction
\* sig_num / sig_den (sig_den > 0); int() of the non-negative sum is its floor
confidence_unclamped(sample_size, sig_num, sig_den) ==
    Max(0, sample_size) * 12 + (sig_num * 30) \div sig_den
confidence(sample_size, sig_num, sig_den) ==
    LET base  == Min(70, Max(0, sample_size) * 12)
        boost == clamp((sig_num * 30) \div sig_den, 0, 30)
    IN clamp(base + boost, 10, 98)

----------------------------------------------------------------------------
(* Insight cards: InsightBuilder                                           *)

Priorities == {"HIGH", "MEDIUM", "LOW"}

Card(id, type, priority, title, summary, conf, evidence, actions) ==
    [id |-> id, type |-> type, priority |-> priority, title |-> title,
     summary |-> summary, confidence |-> conf, evidence |-> evidence,
     actions |-> actions]

\* uid(): a fresh id per card; base is the number of ids handed out before
NextId(base, i) == base + i

\* one anomaly as returned by AnomalyDetector.detect, as far as the card
\* builder reads it: z_score is kept in hundredths
from_anomalies(anoms, base) ==
    LET top == Take(anoms, 5)
    IN [i \in 1..Len(top) |->
          LET a == top[i]
          IN Card(NextId(base, i), "anomaly_detection", a.severity,
                  Str(<<"Olagandisi harcama", a.merchant>>, 22),
                  Str(<<"anomaly_summary", a.merchant>>, 80),
                  confidence(10, Min(a.z_score, 400), 400),
                  <<a.amount, a.z_score>>,
                  <<Str(<<a.merchant, "harcamasini gozden gecirin">>, 56),
                    Str(<<"Benzer tutardaki gecmis islemleri karsilastirin">>, 48)>>
                  \o (IF a.z_score > 300
                      THEN <<Str(<<"Bu islem cok yuksek sapma gosteriyor">>, 60)>>
                      ELSE <<>>))]

from_forecast(fc, base) ==
    IF fc.next_month_estimate <= 0 THEN <<>>
    ELSE <<Card(NextId(base, 1), "budget_forecast",
                IF fc.trend = "up" THEN "HIGH" ELSE "MEDIUM",
                Str(<<"Gelecek ay tahmini">>, 26),
                Str(<<"forecast_summary", fc.trend>>, 50),
                fc.confidence_score,
                <<fc.next_month_estimate, fc.trend_pct>>,
                CASE fc.trend = "up" ->
                       <<Str(<<"Butce limitlerini bu ay icin gozden gecirin">>, 44),
                         Str(<<"En cok artan kategoriyi tespit edip kisinti yapin">>, 50)>>
                  [] fc.trend = "down" ->
                       <<Str(<<"Tasarruf hedefinizi artirabilirsiniz">>, 37),
                         Str(<<"Dusus trendini korumak icin">>, 59)>>
                  [] OTHER ->
                       <<Str(<<"Harcama dengenizi koruyun">>, 53)>>)>>

Has(pats, key) == key \in DOMAIN pats

from_patterns(pats, base) ==
    LET velCards ==
            IF Has(pats, "velocity") /\ pats["velocity"].elapsed_pct > 0
            THEN <<[type |-> "spending_summary",
                    priority |-> IF pats["velocity"].elapsed_pct < 50
                                    /\ pats["velocity"].hot THEN "HIGH" ELSE "MEDIUM",
                    title |-> Str(<<"Harcama hizi">>, 30),
                    summary |-> Str(<<"velocity_summary">>, 70),
                    confidence |-> confidence(pats["velocity"].days_elapsed, 50, 100)]>>
            ELSE <<>>
        dowCards ==
            IF Has(pats, "day_distribution")
               /\ pats["day_distribution"].insight # "balanced"
            THEN <<[type |-> "trend_analysis", priority |-> "LOW",
                    title |-> Str(<<"En cok harcama gunu">>, 30),
                    summary |-> Str(<<"dow_summary">>, 45),
                    confidence |-> confidence(20, 30, 100)]>>
            ELSE <<>>
        shifts == IF Has(pats, "category_shifts")
                  THEN Take(pats["category_shifts"].shifts, 3) ELSE <<>>
        shiftCards ==
            [i \in 1..Len(shifts) |->
                [type |-> "category_breakdown", priority |-> shifts[i].severity,
                 title |-> Str(<<"shift_title", shifts[i].category>>, 26),
                 summary |-> Str(<<"shift_summary", shifts[i].category>>, 50),
                 confidence |-> confidence(8, shifts[i].abs_change_pct, 100)]]
        recCards ==
            IF Has(pats, "recurring_payments")
               /\ pats["recurring_payments"].items > 0
            THEN <<[type |-> "merchant_analysis",
                    priority |-> IF pats["recurring_payments"].total_monthly > 500
                                 THEN "MEDIUM" ELSE "LOW",
                    title |-> Str(<<"Tespit edilen tekrarlayan odeme">>, 33),
                    summary |-> Str(<<"recurring_summary">>, 45),
                    confidence |-> confidence(15, 60, 100)]>>
            ELSE <<>>
        protos == velCards \o dowCards \o shiftCards \o recCards
    IN [i \in 1..Len(protos) |->
          Card(NextId(base, i), protos[i].type, protos[i].priority,
               protos[i].title, protos[i].summary, protos[i].confidence,
               <<>>, <<>>)]

\* a budget entry is [ok, category, pct]; ok = FALSE stands for an entry that
\* is not an object (b.get raises)
BudgetCardNeeded(b) == b.pct >= 80

from_budget_alerts(budgets, base) ==
    LET hits == SelectIdx(budgets, BudgetCardNeeded, 1)
    IN [i \in 1..Len(hits) |->
          Card(NextId(base, i), "budget_forecast",
               IF hits[i].pct >= 100 THEN "HIGH" ELSE "MEDIUM",
               Str(<<hits[i].category,
                     IF hits[i].pct >= 100 THEN "butcesi asildi"
                                           ELSE "butcesi sinira yaklasti">>,
                   IF hits[i].pct >= 100 THEN 21 ELSE 30),
               Str(<<"budget_summary", hits[i].category>>, 30),
               95, <<hits[i].pct>>, <<>>)]

IsActive(g) == g.status = "active"
HasTarget(g) == g.target_amount > 0

\* financial_health is [isdict, period_income, period_spent, period_net,
\* savings_rate]; isdict = FALSE stands for JSON null, which the builder
\* replaces by {} (all fields read as 0)
from_financial_health(fh0, goals, base) ==
    LET fh == IF fh0.isdict THEN fh0
              ELSE [isdict |-> TRUE, period_income |-> 0, period_spent |-> 0,
                    period_net |-> 0, savings_rate |-> 0]
        healthCards ==
            IF fh.period_income > 0
            THEN <<(CASE fh.savings_rate < 10 ->
                        [type |-> "financial_health", priority |-> "HIGH",
                         title |-> Str(<<"Tasarruf orani kritik seviyede">>, 30),
                         confidence |-> 92,
                         actions |-> <<Str(<<"Bu ay en yuksek kategoriye">>, 50),
                                       Str(<<"Abonelikleri kontrol edip">>, 46)>>]
                      [] fh.savings_rate >= 10 /\ fh.savings_rate < 15 ->
                        [type |-> "financial_health", priority |-> "MEDIUM",
                         title |-> Str(<<"Tasarruf orani iyilestirilebilir">>, 32),
                         confidence |-> 85,
                         actions |-> <<Str(<<"En yuksek harcama kategorisinde">>, 51),
                                       Str(<<"Tasarruf hedefi olusturup duzenli">>, 49)>>]
                      [] OTHER ->
                        [type |-> "financial_health", priority |-> "LOW",
                         title |-> Str(<<"Gelir-gider dengesi saglikli">>, 28),
                         confidence |-> 85,
                         actions |-> <<Str(<<"Bu dengeyi korumak icin">>, 67)>>]),
                   [type |-> "income_analysis", priority |-> "LOW",
                    title |-> Str(<<"Aylik geliriniz">>, 24),
                    confidence |-> 95,
                    actions |-> <<Str(<<"Gelirinizi cesitlendirmek icin">>, 61),
                                  Str(<<"Duzenli gelirinizi otomatik">>, 50)>>]>>
            ELSE IF fh.period_spent > 0
            THEN <<[type |-> "financial_health", priority |-> "MEDIUM",
                    title |-> Str(<<"Gelir bilgisi eksik">>, 19),
                    confidence |-> 90,
                    actions |-> <<Str(<<"Gelirlerinizi sisteme ekleyerek">>, 63)>>]>>
            ELSE <<>>
        active == SelectIdx(goals, IsActive, 1)
        withTarget == SelectIdx(active, HasTarget, 1)
        \* sum of the progress percentages, kept as a whole number of percent
        RECURSIVE SumPct(_)
        SumPct(gs) == IF gs = <<>> THEN 0
                      ELSE (Head(gs).current_amount * 100) \div Head(gs).target_amount
                           + SumPct(Tail(gs))
        avg == IF withTarget = <<>> THEN 0 ELSE SumPct(withTarget) \div Len(withTarget)
        goalCards ==
            IF withTarget # <<>>
            THEN <<[type |-> "goal_progress",
                    priority |-> IF avg < 70 THEN "MEDIUM" ELSE "LOW",
                    title |-> Str(<<"Hedef ilerleme ortalamasi">>, 29),
                    confidence |-> confidence(Len(active), Min(avg, 100), 100),
                    actions |-> <<Str(<<"Her hedef icin haftalik">>, 51),
                                  Str(<<"Tamamlanan hedefleri kapatip">>, 46)>>]>>
            ELSE <<>>
        protos == healthCards \o goalCards
    IN [i \in 1..Len(protos) |->
          Card(NextId(base, i), protos[i].type, protos[i].priority,
               protos[i].title, Str(<<"summary", protos[i].type>>, 90),
               protos[i].confidence, <<>>, protos[i].actions)]

----------------------------------------------------------------------------
(* compute_health_score                                                    *)

\* Python's int(): truncation toward zero of num/den, den > 0
\* (exact arithmetic; on the goals drawn below the floats of the code give the
\* same whole numbers)
TruncDiv(num, den) == IF num >= 0 THEN num \div den ELSE -((-num) \div den)

\* int(25 * (1 - over_count / len(budgets))) as binary64 computes it: 4/5 is
\* stored as 0.8000000000000000444, 1 - 0.8 is 0.19999999999999996, 25 times
\* that is 4.999999999999999 and int() cuts it to 4.  For every other quotient
\* of at most 24 budgets the product truncates to the exact whole number.
BudgetPoints(over_count, total) ==
    IF 5 * over_count = 4 * total THEN 4
    ELSE TruncDiv(25 * (total - over_count), total)

RECURSIVE SeqSum(_)
SeqSum(s) == IF s = <<>> THEN 0 ELSE Head(s) + SeqSum(Tail(s))

RECURSIVE SeqProd(_)
SeqProd(s) == IF s = <<>> THEN 1 ELSE Head(s) * SeqProd(Tail(s))

OverBudget(b) == b.pct > 100
NotAnObject(b) == ~b.ok

\* the call raises AttributeError on financial_health = null (None.get) and
\* on a budgets entry that is not an object (b.get)
HealthScoreRaises(fh, budgets) ==
    \/ ~fh.isdict
    \/ SelectIdx(budgets, NotAnObject, 1) # <<>>

compute_health_score(fh, budgets, anoms, goals) ==
    LET s_score == IF fh.savings_rate >= 20 THEN 30
                   ELSE IF fh.savings_rate >= 10 THEN 20
                   ELSE IF fh.savings_rate >= 0 THEN 10 ELSE 0
        over_count == Len(SelectIdx(budgets, OverBudget, 1))
        b_score == IF budgets # <<>>
                   THEN BudgetPoints(over_count, Len(budgets))
                   ELSE 12
        t_score == IF fh.period_net > 0 THEN 20
                   ELSE IF fh.period_net >= -500 THEN 10 ELSE 0
        active == SelectIdx(goals, IsActive, 1)
        withTarget == SelectIdx(active, HasTarget, 1)
        targets == [i \in 1..Len(withTarget) |-> withTarget[i].target_amount]
        P == SeqProd(targets)
        \* min(current / target, 1.0), over the common denominator P
        parts == [i \in 1..Len(withTarget) |->
                    Min(withTarget[i].current_amount, withTarget[i].target_amount)
                    * (P \div withTarget[i].target_amount)]
        g_score == IF active # <<>>
                   THEN IF withTarget # <<>>
                        THEN TruncDiv(15 * SeqSum(parts), Len(withTarget) * P)
                        ELSE 7         \* int(15 * 0.5)
                   ELSE 8
        a_score == IF Len(anoms) = 0 THEN 10 ELSE IF Len(anoms) <= 2 THEN 5 ELSE 0
        total == s_score + b_score + t_score + g_score + a_score
        score == clamp(total, 0, 100)
    IN [computed |-> TRUE, score |-> score,
        label |-> IF score >= 80 THEN "Mukemmel" ELSE IF score >= 60 THEN "Iyi"
                  ELSE IF score >= 40 THEN "Orta" ELSE "Dikkat Gerekli",
        breakdown |-> [savings |-> s_score, budget |-> b_score, trend |-> t_score,
                       goals |-> g_score, anomalies |-> a_score]]

NoHealthScore ==
    [computed |-> FALSE, score |-> 0, label |-> "",
     breakdown |-> [savings |-> 0, budget |-> 0, trend |-> 0, goals |-> 0,
                    anomalies |-> 0]]

----------------------------------------------------------------------------
(* build_next_actions                                                      *)

NextActionCap == 8      \* unique[:8]
ActionsPerCard == 2     \* card["actions"][:2]
DedupKeyLen == 40       \* a["title"][:40]

DefaultActions ==
    <<[title |-> Str(<<"Harcamalarinizi duzenli olarak gozden gecirin">>, 46),
       source_insight |-> 0, priority |-> "MEDIUM", due_in_days |-> 7],
      [title |-> Str(<<"Aylik butce hedeflerinizi belirleyin">>, 37),
       source_insight |-> 0, priority |-> "MEDIUM", due_in_days |-> 14],
      [title |-> Str(<<"Tasarruf hedefi olusturup ilerlemenizi takip edin">>, 50),
       source_insight |-> 0, priority |-> "LOW", due_in_days |-> 14]>>

\* the actions extracted from one card
CardActions(card) ==
    IF card.actions # <<>>
    THEN LET acts == Take(card.actions, ActionsPerCard)
         IN [i \in 1..Len(acts) |->
               [title |-> acts[i], source_insight |-> card.id,
                priority |-> card.priority,
                due_in_days |-> IF card.priority = "HIGH" THEN 7 ELSE 14]]
    ELSE IF card.priority = "HIGH"
    THEN <<[title |-> card.title, source_insight |-> card.id,
            priority |-> "HIGH", due_in_days |-> 7]>>
    ELSE <<>>

\* keep the first entry of every a["title"][:40] key
RECURSIVE DedupActions(_, _)
DedupActions(acts, seen) ==
    IF acts = <<>> THEN <<>>
    ELSE LET key == Prefix(Head(acts).title, DedupKeyLen)
         IN IF key \in seen THEN DedupActions(Tail(acts), seen)
            ELSE <<Head(acts)>> \o DedupActions(Tail(acts), seen \cup {key})

build_next_actions_uncapped(insights, with_defaults) ==
    LET actions == Concat([i \in 1..Len(insights) |-> CardActions(insights[i])])
        unique == DedupActions(actions, {})
    IN IF unique # <<>> \/ ~with_defaults THEN unique ELSE DefaultActions

\* with_defaults is TRUE for orchestrator.build_next_actions and FALSE for
\* lambda_function._build_next_actions, which returns unique[:8] as it is
build_next_actions(insights, with_defaults) ==
    LET actions == Concat([i \in 1..Len(insights) |-> CardActions(insights[i])])
        unique == DedupActions(actions, {})
    IN IF unique # <<>> \/ ~with_defaults THEN Take(unique, NextActionCap)
       ELSE DefaultActions

----------------------------------------------------------------------------
(* LLMEnricher                                                             *)

\* _fallback_coach: the headline is chosen by forecast.trend
FallbackCoach(fc) ==
    [kind |-> "fallback",
     headline |-> CASE fc.trend = "up" -> Str(<<"Dikkat: harcamalar artis egiliminde!">>, 36)
                    [] fc.trend = "down" -> Str(<<"Harcamalariniz dusus egiliminde.">>, 32)
                    [] OTHER -> Str(<<"period analizi tamamlandi.">>, 27),
     summary |-> Str(<<"period donemine ait finansal analiz sonuclari hazir.">>, 53)]

NoCoach == [kind |-> "none", headline |-> Str(<<>>, 0), summary |-> Str(<<>>, 0)]

TitleCap == 70          \* e["title"][:70]
SummaryCap == 180       \* e["summary"][:180]
ActionCap == 100        \* a[:100]
ActionsCap == 3         \* e["actions"][:3]
HeadlineCap == 120      \* len(coach["headline"]) > 120
MaxWarnings == 2        \* len(warnings) <= 2

\* A JSON value in the model output: k = "absent" (missing, null or ""),
\* "str" (text s) or "int" (a number: truthy, cannot be sliced)
Truthy(v) == (v.k = "str" /\ v.s.len > 0) \/ v.k = "int"

CardIds(insights) == {insights[i].id : i \in 1..Len(insights)}

\* _validate_output on a parsed object; ans.coach_kind is "absent", "null",
\* "text" (present, not an object), "empty_dict" ({}) or "dict"
Warnings(ans, insights) ==
    LET coachW ==
            IF ans.coach_kind # "dict"
            THEN 1
            ELSE (IF ~Truthy(ans.headline) THEN 1
                  ELSE IF ans.headline.s.len > HeadlineCap THEN 1 ELSE 0)
                 + (IF ~Truthy(ans.summary) THEN 1 ELSE 0)
        unknown == {i \in 1..Len(ans.card_enrichments) :
                       /\ ans.card_enrichments[i].id # 0
                       /\ ans.card_enrichments[i].id \notin CardIds(insights)}
    IN coachW + Cardinality(unknown)

AlwaysValid(ans, insights) == TRUE
IsValid(ans, insights) == Warnings(ans, insights) <= MaxWarnings

\* {e["id"]: e for e in card_enrichments if "id" in e}: the last entry of an
\* id wins; id 0 stands for an entry without "id"
EnrichmentFor(ans, cid) ==
    LET idx == {i \in 1..Len(ans.card_enrichments) : ans.card_enrichments[i].id = cid}
    IN IF idx = {} \/ cid = 0 THEN [found |-> FALSE, e |-> 0]
       ELSE [found |-> TRUE,
             e |-> ans.card_enrichments[CHOOSE i \in idx : \A j \in idx : j <= i]]

BadAction(a) == a.k # "str"

\* the card replaced by the enrichment entry instead of being updated
ApplyEnrichmentReplacing(card, e) ==
    [card |-> Card(card.id, "", "MEDIUM",
                   IF e.title.k = "str" THEN Prefix(e.title.s, TitleCap) ELSE card.title,
                   IF e.summary.k = "str" THEN Prefix(e.summary.s, SummaryCap)
                   ELSE card.summary,
                   0, <<>>, card.actions),
     raised |-> FALSE]

\* the enrichment also overwriting the confidence of the card
ApplyEnrichmentWithConfidence(card, e) ==
    [card |-> [card EXCEPT !.title = IF e.title.k = "str"
                                     THEN Prefix(e.title.s, TitleCap) ELSE @,
                           !.confidence = 98],
     raised |-> FALSE]

\* the body of "for card in insights" for one card: the three assignments in
\* order; a number where text is expected raises at its slice, after the
\* earlier assignments were made
ApplyEnrichment(card, e) ==
    LET c1 == IF Truthy(e.title) /\ e.title.k = "str"
              THEN [card EXCEPT !.title = Prefix(e.title.s, TitleCap)] ELSE card
        r1 == Truthy(e.title) /\ e.title.k # "str"
        c2 == IF Truthy(e.summary) /\ e.summary.k = "str"
              THEN [c1 EXCEPT !.summary = Prefix(e.summary.s, SummaryCap)] ELSE c1
        r2 == Truthy(e.summary) /\ e.summary.k # "str"
        acts == Take(e.actions, ActionsCap)
        r3 == SelectIdx(acts, BadAction, 1) # <<>>
        c3 == IF e.actions # <<>>
              THEN [c2 EXCEPT !.actions =
                        [i \in 1..Len(acts) |-> Prefix(acts[i].s, ActionCap)]]
              ELSE c2
    IN IF r1 THEN [card |-> card, raised |-> TRUE]
       ELSE IF r2 THEN [card |-> c1, raised |-> TRUE]
       ELSE IF r3 THEN [card |-> c2, raised |-> TRUE]
       ELSE [card |-> c3, raised |-> FALSE]

\* the loop over the cards, stopping at the first exception
RECURSIVE EnrichLoop(_, _, _)
EnrichLoop(insights, ans, i) ==
    IF i > Len(insights) THEN [insights |-> insights, raised |-> FALSE]
    ELSE LET m == EnrichmentFor(ans, insights[i].id)
         IN IF ~m.found THEN EnrichLoop(insights, ans, i + 1)
            ELSE LET r == ApplyEnrichment(insights[i], m.e)
                     ins2 == [insights EXCEPT ![i] = r.card]
                 IN IF r.raised THEN [insights |-> ins2, raised |-> TRUE]
                    ELSE EnrichLoop(ins2, ans, i + 1)

\* the coach object of the model output as returned to the caller
LlmCoach(ans) ==
    [kind |-> "llm",
     headline |-> IF ans.headline.k = "str" THEN ans.headline.s ELSE Str(<<>>, 0),
     summary |-> IF ans.summary.k = "str" THEN ans.summary.s ELSE Str(<<>>, 0)]

\* LLMEnricher.enrich; ans.call is "error" when invoke_model or the reading
\* of its body raises, ans.body is "unparsable" (_parse_json gives {}),
\* "non_dict" (valid JSON that is not an object) or "dict"
enrich(insights, fc, ans) ==
    IF insights = <<>>
    THEN [insights |-> insights, coach |-> FallbackCoach(fc), status |-> "none",
          calls |-> 0]
    ELSE IF ans.call = "error"
    THEN [insights |-> insights, coach |-> FallbackCoach(fc), status |-> "error",
          calls |-> 1]
    ELSE IF ans.body = "unparsable"
    THEN [insights |-> insights, coach |-> FallbackCoach(fc), status |-> "success",
          calls |-> 1]
    ELSE IF ans.body = "non_dict"
    THEN \* _detect_hallucination: ai_data.get raises
         [insights |-> insights, coach |-> FallbackCoach(fc), status |-> "error",
          calls |-> 1]
    ELSE IF ans.coach_kind \in {"null", "text"}
    THEN \* _detect_hallucination: coach.get raises
         [insights |-> insights, coach |-> FallbackCoach(fc), status |-> "error",
          calls |-> 1]
    ELSE IF ans.coach_kind = "dict"
            /\ (ans.headline.k = "int" \/ ans.summary.k = "int")
    THEN \* _detect_hallucination: re.findall on a number raises
         [insights |-> insights, coach |-> FallbackCoach(fc), status |-> "error",
          calls |-> 1]
    ELSE LET c == IF ans.coach_kind \in {"dict", "empty_dict"} THEN LlmCoach(ans)
                  ELSE FallbackCoach(fc)
         IN IF IsValid(ans, insights)
            THEN LET r == EnrichLoop(insights, ans, 1)
                 IN IF r.raised
                    THEN [insights |-> r.insights, coach |-> FallbackCoach(fc),
                          status |-> "error", calls |-> 1]
                    ELSE [insights |-> r.insights, coach |-> c,
                          status |-> "success", calls |-> 1]
            ELSE [insights |-> insights, coach |-> c, status |-> "success",
                  calls |-> 1]

----------------------------------------------------------------------------
(* Payloads                                                                *)

\* transactions: n entries; bad names what is wrong with one of them:
\* "null_merchant" (merchant is null), "non_dict" (an entry is not an object)
TxCases ==
    {[n |-> 0, bad |-> "none"], [n |-> 4, bad |-> "none"], [n |-> 6, bad |-> "none"],
     [n |-> 6, bad |-> "null_merchant"], [n |-> 6, bad |-> "non_dict"],
     [n |-> 60, bad |-> "none"]}

\* monthlyTotals: n entries; "bad_categories": categories is a list, not a
\* map; "non_dict": an entry is not an object
MtCases ==
    {[n |-> 0, bad |-> "none"], [n |-> 1, bad |-> "none"], [n |-> 3, bad |-> "none"],
     [n |-> 2, bad |-> "bad_categories"], [n |-> 3, bad |-> "non_dict"]}

Budget(cat, pct) == [ok |-> TRUE, category |-> cat, pct |-> pct]
BudgetNames == <<"b1", "b2", "b3", "b4", "b5", "b6", "b7", "b8", "b9">>

BudgetCases ==
    {<<>>,
     <<Budget("b1", 50), Budget("b2", 120)>>,
     <<Budget("b1", 90), Budget("b2", 100)>>,
     <<Budget("b1", 120), [ok |-> FALSE, category |-> "", pct |-> 0]>>,
     [i \in 1..MaxBudgets |-> Budget(BudgetNames[i], 120)]}

FH(inc, spent, net, rate) ==
    [isdict |-> TRUE, period_income |-> inc, period_spent |-> spent,
     period_net |-> net, savings_rate |-> rate]
NullFH == [isdict |-> FALSE, period_income |-> 0, period_spent |-> 0,
           period_net |-> 0, savings_rate |-> 0]
Goal(status, target, current) ==
    [status |-> status, target_amount |-> target, current_amount |-> current]

\* (financialHealth, goals)
HealthCases ==
    {<<FH(0, 0, 0, 0), <<>>>>,
     <<NullFH, <<>>>>,
     <<FH(1000, 950, 50, 5), <<Goal("active", 100, 50)>>>>,
     <<FH(1000, 700, 300, 30), <<Goal("active", 100, 80), Goal("completed", 50, 50)>>>>,
     <<FH(0, 700, -700, 0), <<>>>>}

Payloads ==
    {[transactions |-> tx, monthlyTotals |-> mt, budgets |-> b,
      financialHealth |-> h[1], goals |-> h[2], skipLLM |-> sk] :
        tx \in TxCases, mt \in MtCases, b \in BudgetCases, h \in HealthCases,
        sk \in BOOLEAN}

NoForecast ==
    [next_month_estimate |-> 0, trend |-> "none", trend_pct |-> 0,
     confidence_score |-> 0, method |-> "unset"]

\* the forecast assigned in the except branch of step 2
NeutralForecast ==
    [next_month_estimate |-> 0, trend |-> "stable", trend_pct |-> 0,
     confidence_score |-> 10, method |-> "neutral"]

\* meta.cache_key: the first 16 hex digits of the md5 digest of the JSON text
\* {"monthly_count", "period", "total", "tx_count"}.  The digest is a function
\* of that text and the text of its four values, so the key is kept as the
\* four values (collisions of the digest are not modelled).  p is what the
\* payload holds: period, tx_count = len(transactions), totals = the list of
\* sf(m.get("total")), budget_count = len(budgets), skipLLM.
cache_key_with_budgets(p) ==
    [period |-> p.period, tx_count |-> p.tx_count + p.budget_count,
     monthly_count |-> Len(p.totals), total |-> SeqSum(p.totals)]
cache_key(p) ==
    [period |-> p.period, tx_count |-> p.tx_count,
     monthly_count |-> Len(p.totals), total |-> SeqSum(p.totals)]
NoCacheKey == [period |-> "", tx_count |-> 0, monthly_count |-> 0, total |-> 0]

\* the payloads of the pipeline keep of monthlyTotals only the number of
\* entries and all carry the same period
KeyView(p) ==
    [period |-> "2025-03", tx_count |-> p.transactions.n,
     totals |-> [i \in 1..p.monthlyTotals.n |-> 1000],
     budget_count |-> Len(p.budgets), skipLLM |-> p.skipLLM]
\* m.get("total") raises on an entry that is not an object
CacheKeyRaises(mt) == mt.n >= 1 /\ mt.bad = "non_dict"

NoResponse ==
    [status |-> "pending", coach |-> NoCoach, insights |-> <<>>,
     forecast |-> NoForecast, anomalies |-> <<>>, patterns |-> <<>>,
     next_actions |-> <<>>, health_score |-> NoHealthScore,
     cache_key |-> NoCacheKey, error |-> ""]

NoAnswer ==
    [call |-> "none", body |-> "none", coach_kind |-> "absent",
     headline |-> [k |-> "absent", s |-> Str(<<>>, 0)],
     summary |-> [k |-> "absent", s |-> Str(<<>>, 0)],
     card_enrichments |-> <<>>]

Stages == {"anomaly_detection", "forecast", "pattern_mining", "budget_insights",
           "health_insights"}

NoEnrichResult ==
    [insights |-> <<>>, coach |-> NoCoach, status |-> "none", calls |-> 0]

\* the variables of a function that is not being called keep these values
EnrichIdle ==
    /\ e_pc = "idle" /\ e_in = <<>> /\ e_fc = NoForecast /\ e_ans = NoAnswer
    /\ e_out = NoEnrichResult
DetectIdle ==
    /\ d_pc = "idle" /\ transactions = <<>>
    /\ detected = [raised |-> FALSE, anomalies |-> <<>>]
CallIdle ==
    /\ c_pc = "idle" /\ c_in = <<>> /\ c_out = <<>>
ForecastIdle ==
    /\ f_pc = "idle" /\ monthly_totals = <<>>
    /\ fc_out = [next_month_estimate |-> 0, trend |-> "none",
                 confidence_score |-> 0, method |-> "unset",
                 seasonal |-> FALSE, blended |-> [num |-> 0, den |-> 1],
                 recent_avg |-> [num |-> 0, den |-> 1]]
InitRunVars(e, p) ==
    /\ entry = e
    /\ payload = p
    /\ anomalies = <<>>
    /\ forecast = NoForecast
    /\ all_patterns = <<>>
    /\ all_insights = <<>>
    /\ health_score = NoHealthScore
    /\ coach = NoCoach
    /\ next_actions = <<>>
    /\ response = NoResponse
    /\ executed = <<>>
    /\ failed = {}
    /\ contributed = [s \in Stages |-> 0]
    /\ llm_calls = 0
    /\ answer = NoAnswer

IdlePayload ==
    [transactions |-> [n |-> 0, bad |-> "none"], monthlyTotals |-> [n |-> 0, bad |-> "none"],
     budgets |-> <<>>, financialHealth |-> FH(0, 0, 0, 0), goals |-> <<>>,
     skipLLM |-> FALSE]
RunIdle == InitRunVars("none", IdlePayload) /\ pc = "idle"

----------------------------------------------------------------------------
(* Results of the detectors, as far as run_analysis reads them              *)

Anomaly(i, sev) ==
    [merchant |-> IF i % 2 = 1 THEN "m1" ELSE "m2", amount |-> 1000 + i,
     z_score |-> IF sev = "HIGH" THEN 350 ELSE 220, severity |-> sev]

\* a list detect can return: k anomalies, the first h of them HIGH
AnomalyList(k, h) == [i \in 1..k |-> Anomaly(i, IF i <= h THEN "HIGH" ELSE "MEDIUM")]

\* AnomalyDetector.detect raises on an entry that is not an object (tx.get)
DetectRaises(tx) == tx.n >= 5 /\ tx.bad = "non_dict"

DetectResults(tx) ==
    IF tx.n < 5 THEN {<<>>}
    ELSE IF tx.n < MaxDetected THEN {<<>>, AnomalyList(1, 1), AnomalyList(2, 0)}
    ELSE {<<>>, AnomalyList(6, 2), AnomalyList(MaxDetected, 3)}

Forecast(est, trend, conf, method) ==
    [next_month_estimate |-> est, trend |-> trend, trend_pct |-> 0,
     confidence_score |-> conf, method |-> method]

\* ForecastEngine.forecast raises on an entry that is not an object (m.get)
\* and, from two entries on, on a categories value that is not a map (.keys)
ForecastRaises(mt) ==
    \/ mt.n >= 1 /\ mt.bad = "non_dict"
    \/ mt.n >= 2 /\ mt.bad = "bad_categories"

ForecastResults(mt) ==
    IF mt.n = 0 THEN {Forecast(0, "stable", 10, "none")}
    ELSE IF mt.n = 1 THEN {Forecast(100, "stable", 15, "single_value")}
    ELSE {Forecast(100, "up", confidence(mt.n, 100, 100), "ema_lr_blend"),
          Forecast(100, "down", confidence(mt.n, 100, 100), "ema_lr_blend"),
          Forecast(0, "stable", confidence(mt.n, 0, 100), "ema_lr_blend")}

Shift(cat, sev) == [category |-> cat, severity |-> sev,
                    abs_change_pct |-> IF sev = "HIGH" THEN 60 ELSE 30]

\* what the five detectors would return on well-formed data (absent = None)
PatternDraws ==
    {<<>>,
     [velocity |-> [elapsed_pct |-> 60, hot |-> FALSE, days_elapsed |-> 18]],
     [velocity |-> [elapsed_pct |-> 30, hot |-> TRUE, days_elapsed |-> 9],
      day_distribution |-> [insight |-> "weekend_heavy"],
      recurring_payments |-> [items |-> 2, total_monthly |-> 600],
      category_shifts |-> [shifts |-> <<Shift("c1", "HIGH")>>]],
     [velocity |-> [elapsed_pct |-> 30, hot |-> FALSE, days_elapsed |-> 9],
      day_distribution |-> [insight |-> "weekday_heavy"],
      category_correlation |-> [pairs |-> 1],
      recurring_payments |-> [items |-> 1, total_monthly |-> 100],
      category_shifts |-> [shifts |-> <<Shift("c1", "HIGH"), Shift("c2", "MEDIUM"),
                                        Shift("c3", "MEDIUM"), Shift("c4", "MEDIUM")>>]]}

\* the detectors in the order step 3 calls them, with the key each fills
Detectors == <<"velocity", "day_distribution", "category_correlation",
               "recurring_payments", "category_shifts">>

\* the least input a detector needs to return a result
DetectorApplies(key, tx, mt) ==
    CASE key = "velocity" -> tx.n >= 1
      [] key = "day_distribution" -> tx.n >= 1
      [] key = "category_correlation" -> mt.n >= 3
      [] key = "recurring_payments" -> tx.n >= 4
      [] key = "category_shifts" -> mt.n >= 2

\* the detector raises: tx.get / tx["date"] on an entry that is not an
\* object, None.strip() on a null merchant, .keys() on a categories list
DetectorRaises(key, tx, mt) ==
    /\ DetectorApplies(key, tx, mt)
    /\ CASE key = "velocity" -> tx.bad = "non_dict"
         [] key = "day_distribution" -> tx.bad = "non_dict"
         [] key = "category_correlation" -> mt.bad \in {"non_dict", "bad_categories"}
         [] key = "recurring_payments" -> tx.bad \in {"non_dict", "null_merchant"}
         [] key = "category_shifts" -> mt.bad \in {"non_dict", "bad_categories"}

\* the try block of step 3 up to the card builder: all_patterns is filled
\* key by key and keeps what was stored before a detector raised
RECURSIVE MinePatterns(_, _, _, _, _)
MinePatterns(draw, tx, mt, i, pats) ==
    IF i > Len(Detectors) THEN [patterns |-> pats, raised |-> FALSE]
    ELSE LET key == Detectors[i]
         IN IF DetectorRaises(key, tx, mt) THEN [patterns |-> pats, raised |-> TRUE]
            ELSE IF DetectorApplies(key, tx, mt) /\ key \in DOMAIN draw
            THEN MinePatterns(draw, tx, mt, i + 1, (key :> draw[key]) @@ pats)
            ELSE MinePatterns(draw, tx, mt, i + 1, pats)

\* all_insights.sort(key=priority_order.get(priority, 2)): stable
IsHigh(c) == c.priority = "HIGH"
IsMedium(c) == c.priority = "MEDIUM"
IsLowest(c) == c.priority \notin {"HIGH", "MEDIUM"}
Unsorted(cards) == cards
SortByPriority(cards) ==
    SelectIdx(cards, IsHigh, 1) \o SelectIdx(cards, IsMedium, 1)
    \o SelectIdx(cards, IsLowest, 1)

----------------------------------------------------------------------------
(* What the text-generation model can do in one call                       *)

Txt(tok, len) == [k |-> "str", s |-> Str(<<tok>>, len)]
Absent == [k |-> "absent", s |-> Str(<<>>, 0)]
Num == [k |-> "int", s |-> Str(<<>>, 0)]

Enrichment(id, title, summary, actions) ==
    [id |-> id, title |-> title, summary |-> summary, actions |-> actions]

Answer(call, body, coach_kind, headline, summary, es) ==
    [call |-> call, body |-> body, coach_kind |-> coach_kind,
     headline |-> headline, summary |-> summary, card_enrichments |-> es]

CallFails == Answer("error", "none", "absent", Absent, Absent, <<>>)
Unparsable == Answer("ok", "unparsable", "absent", Absent, Absent, <<>>)

UnknownId == 999        \* an id no card has

\* the answers considered in a run of the pipeline, for the cards at hand
RunAnswers(cards) ==
    LET first == cards[1].id
        last == cards[Len(cards)].id
        good == Txt("llm_headline", 60)
        sum == Txt("llm_summary", 200)
    IN {CallFails, Unparsable,
        Answer("ok", "dict", "dict", good, sum, <<>>),
        Answer("ok", "dict", "dict", good, sum,
               <<Enrichment(first, Txt("llm_title", 90), Txt("llm_card_summary", 200),
                            <<Txt("llm_action_1", 120), Txt("llm_action_2", 30)>>),
                 Enrichment(UnknownId, Txt("llm_title_x", 20), Absent, <<>>)>>),
        Answer("ok", "dict", "dict", good, sum,
               <<Enrichment(first, Txt("llm_title", 90), Num, <<>>),
                 Enrichment(last, Absent, Absent, <<Txt("llm_action_1", 20), Num>>)>>),
        Answer("ok", "dict", "dict", Absent, Absent,
               <<Enrichment(UnknownId, Txt("llm_title_x", 20), Absent, <<>>),
                 Enrichment(first, Txt("llm_title", 30), Absent, <<>>)>>),
        Answer("ok", "dict", "dict", Txt("llm_headline", 130), Absent, <<>>)}

----------------------------------------------------------------------------
(* lambda_handler and run_analysis                                         *)

InsightsCap == 12       \* all_insights[:12]
AnomaliesCap == 10      \* anomalies[:10]

Placeholder ==
    [kind |-> "placeholder", headline |-> Str(<<"Analiz icin yeterli veri yok.">>, 29),
     summary |-> Str(<<>>, 0)]

\* not payload.get('monthlyTotals') and not payload.get('transactions')
InsufficientDataOrNoBudgets(p) ==
    p.monthlyTotals.n = 0 /\ p.transactions.n = 0 /\ p.budgets = <<>>
InsufficientData(p) == p.monthlyTotals.n = 0 /\ p.transactions.n = 0

\* lambda_handler up to the call of run_analysis: the minimum-input check
LambdaHandler ==
    /\ pc = "handler"
    /\ UNCHANGED <<enrVars, detVars, fcVars, callVars>>
    /\ IF InsufficientData(payload)
       THEN /\ response' = [NoResponse EXCEPT !.status = "ok",
                                              !.coach = Placeholder,
                                              !.error = "insufficient_data"]
            /\ pc' = "done"
       ELSE /\ pc' = "step1"
            /\ UNCHANGED response
    /\ UNCHANGED <<entry, payload, anomalies, forecast, all_patterns, all_insights,
                   health_score, coach, next_actions, executed, failed, contributed,
                   llm_calls, answer>>

\* STEP 1: detect + from_anomalies in one try block
Step1Anomaly ==
    /\ pc = "step1"
    /\ UNCHANGED <<enrVars, detVars, fcVars, callVars>>
    /\ LET tx == payload.transactions
       IN IF DetectRaises(tx)
          THEN /\ anomalies' = <<>>
               /\ failed' = failed \cup {"anomaly_detection"}
               /\ UNCHANGED <<all_insights, contributed>>
          ELSE \E res \in DetectResults(tx) :
                 LET cards == from_anomalies(res, Len(all_insights))
                 IN /\ anomalies' = res
                    /\ all_insights' = all_insights \o cards
                    /\ contributed' =
                         [contributed EXCEPT !["anomaly_detection"] = Len(cards)]
                    /\ UNCHANGED failed
    /\ executed' = Append(executed, "anomaly_detection")
    /\ pc' = "step2"
    /\ UNCHANGED <<entry, payload, forecast, all_patterns, health_score, coach,
                   next_actions, response, llm_calls, answer>>

\* STEP 2: forecast + from_forecast in one try block
Step2Forecast ==
    /\ pc = "step2"
    /\ UNCHANGED <<enrVars, detVars, fcVars, callVars>>
    /\ LET mt == payload.monthlyTotals
       IN IF ForecastRaises(mt)
          THEN /\ forecast' = NeutralForecast
               /\ failed' = failed \cup {"forecast"}
               /\ UNCHANGED <<all_insights, contributed>>
          ELSE \E res \in ForecastResults(mt) :
                 LET cards == from_forecast(res, Len(all_insights))
                 IN /\ forecast' = res
                    /\ all_insights' = all_insights \o cards
                    /\ contributed' = [contributed EXCEPT !["forecast"] = Len(cards)]
                    /\ UNCHANGED failed
    /\ executed' = Append(executed, "forecast")
    /\ pc' = "step3"
    /\ UNCHANGED <<entry, payload, anomalies, all_patterns, health_score, coach,
                   next_actions, response, llm_calls, answer>>

\* STEP 3: the five detectors + from_patterns in one try block
Step3Patterns ==
    /\ pc = "step3"
    /\ UNCHANGED <<enrVars, detVars, fcVars, callVars>>
    /\ \E draw \in PatternDraws :
         LET r == MinePatterns(draw, payload.transactions, payload.monthlyTotals,
                               1, all_patterns)
             cards == from_patterns(r.patterns, Len(all_insights))
         IN /\ all_patterns' = r.patterns
            /\ IF r.raised
               THEN /\ failed' = failed \cup {"pattern_mining"}
                    /\ UNCHANGED <<all_insights, contributed>>
               ELSE /\ all_insights' = all_insights \o cards
                    /\ contributed' =
                         [contributed EXCEPT !["pattern_mining"] = Len(cards)]
                    /\ UNCHANGED failed
    /\ executed' = Append(executed, "pattern_mining")
    /\ pc' = "step4a"
    /\ UNCHANGED <<entry, payload, anomalies, forecast, health_score, coach,
                   next_actions, response, llm_calls, answer>>

\* STEP 4: from_budget_alerts in its try block
Step4Budget ==
    /\ pc = "step4a"
    /\ UNCHANGED <<enrVars, detVars, fcVars, callVars>>
    /\ IF SelectIdx(payload.budgets, NotAnObject, 1) # <<>>
       THEN /\ failed' = failed \cup {"budget_insights"}
            /\ UNCHANGED <<all_insights, contributed>>
       ELSE LET cards == from_budget_alerts(payload.budgets, Len(all_insights))
            IN /\ all_insights' = all_insights \o cards
               /\ contributed' =
                    [contributed EXCEPT !["budget_insights"] = Len(cards)]
               /\ UNCHANGED failed
    /\ executed' = Append(executed, "budget_insights")
    /\ pc' = "step4b"
    /\ UNCHANGED <<entry, payload, anomalies, forecast, all_patterns, health_score,
                   coach, next_actions, response, llm_calls, answer>>

\* STEP 4b: from_financial_health in its try block (no input of the model
\* makes it raise: it replaces a null financialHealth by {})
Step4Health ==
    /\ pc = "step4b"
    /\ UNCHANGED <<enrVars, detVars, fcVars, callVars>>
    /\ LET cards == from_financial_health(payload.financialHealth, payload.goals,
                                          Len(all_insights))
       IN /\ all_insights' = all_insights \o cards
          /\ contributed' = [contributed EXCEPT !["health_insights"] = Len(cards)]
    /\ executed' = Append(executed, "health_insights")
    /\ pc' = "score_sort"
    /\ UNCHANGED <<entry, payload, anomalies, forecast, all_patterns, health_score,
                   coach, next_actions, response, failed, llm_calls, answer>>

\* compute_health_score (orchestrator.py only, outside any try) and the sort
ScoreAndSort ==
    /\ pc = "score_sort"
    /\ UNCHANGED <<enrVars, detVars, fcVars, callVars>>
    /\ IF entry = "run_analysis"
          /\ HealthScoreRaises(payload.financialHealth, payload.budgets)
       THEN /\ pc' = "raised"
            /\ response' = [NoResponse EXCEPT !.status = "raised",
                                               !.error = "AttributeError"]
            /\ executed' = Append(executed, "health_score")
            /\ UNCHANGED <<health_score, all_insights>>
       ELSE /\ health_score' =
                 IF entry = "run_analysis"
                 THEN compute_health_score(payload.financialHealth, payload.budgets,
                                           anomalies, payload.goals)
                 ELSE health_score
            /\ all_insights' = SortByPriority(all_insights)
            /\ executed' = IF entry = "run_analysis"
                           THEN Append(executed, "health_score") ELSE executed
            /\ pc' = "step5"
            /\ UNCHANGED response
    /\ UNCHANGED <<entry, payload, anomalies, forecast, all_patterns, coach,
                   next_actions, failed, contributed, llm_calls, answer>>

SkipLlmFlagOnly(p) == p.skipLLM
SkipLlm(p) == p.skipLLM \/ (p.transactions.n < 6 /\ p.monthlyTotals.n < 2)

\* STEP 5: LLMEnricher.enrich, or the fallback coach when skipped
Step5Llm ==
    /\ pc = "step5"
    /\ UNCHANGED <<enrVars, detVars, fcVars, callVars>>
    /\ IF SkipLlm(payload)
       THEN /\ coach' = FallbackCoach(forecast)
            /\ UNCHANGED <<all_insights, llm_calls, answer, failed, executed>>
       ELSE \E ans \in (IF all_insights = <<>> THEN {NoAnswer}
                        ELSE RunAnswers(all_insights)) :
              LET r == enrich(all_insights, forecast, ans)
              IN /\ answer' = ans
                 /\ all_insights' = r.insights
                 /\ coach' = r.coach
                 /\ llm_calls' = llm_calls + r.calls
                 /\ failed' = IF r.status = "error"
                              THEN failed \cup {"llm_enrichment"} ELSE failed
                 /\ executed' = Append(executed, "llm_enrichment")
    /\ pc' = "build"
    /\ UNCHANGED <<entry, payload, anomalies, forecast, all_patterns, health_score,
                   next_actions, response, contributed>>

\* build_next_actions and the response object
BuildResponse ==
    /\ pc = "build"
    /\ UNCHANGED <<enrVars, detVars, fcVars, callVars>>
    /\ LET na == build_next_actions(all_insights, entry = "run_analysis")
       IN /\ next_actions' = na
          /\ IF CacheKeyRaises(payload.monthlyTotals)
             THEN \* the exception leaves run_analysis; lambda_handler
                  \* catches it and answers with statusCode 500
                  IF entry = "run_analysis"
                  THEN /\ pc' = "raised"
                       /\ response' = [NoResponse EXCEPT !.status = "raised",
                                                          !.error = "AttributeError"]
                  ELSE /\ pc' = "done"
                       /\ response' = [NoResponse EXCEPT !.status = "error",
                                                          !.error = "AttributeError"]
             ELSE /\ pc' = "done"
                  /\ response' =
                       [status |-> "ok", coach |-> coach,
                        insights |-> Take(all_insights, InsightsCap),
                        forecast |-> forecast,
                        anomalies |-> Take(anomalies, AnomaliesCap),
                        patterns |-> all_patterns,
                        next_actions |-> na,
                        health_score |-> health_score,
                        cache_key |-> cache_key(KeyView(payload)),
                        error |-> ""]
    /\ executed' = Append(executed, "next_actions")
    /\ UNCHANGED <<entry, payload, anomalies, forecast, all_patterns, all_insights,
                   health_score, coach, failed, contributed, llm_calls, answer>>

NextRun ==
    \/ Step1Anomaly \/ Step2Forecast \/ Step3Patterns \/ Step4Budget
    \/ Step4Health \/ ScoreAndSort \/ Step5Llm \/ BuildResponse

\* run_analysis (orchestrator.py) on every payload of the model
Init ==
    /\ \E p \in Payloads : InitRunVars("run_analysis", p) /\ pc = "step1"
    /\ EnrichIdle /\ DetectIdle /\ ForecastIdle /\ CallIdle

Next == NextRun

Spec == Init /\ [][Next]_vars

\* lambda_handler (lambda_function.py) on every payload of the model
InitHandler ==
    /\ \E p \in Payloads : InitRunVars("lambda_handler", p) /\ pc = "handler"
    /\ EnrichIdle /\ DetectIdle /\ ForecastIdle /\ CallIdle

NextHandler == LambdaHandler \/ NextRun

SpecHandler == InitHandler /\ [][NextHandler]_vars

----------------------------------------------------------------------------
(* Properties of run_analysis and lambda_handler                           *)

Range(s) == {s[i] : i \in 1..Len(s)}

Returned == pc \in {"done", "raised"}

\* C1: run_analysis never propagates an exception raised inside a stage:
\* whatever stage raises, the later stages run and a complete response
\* (coach, insights, forecast, anomalies, patterns, next_actions,
\* health_score) is returned.
C1_StageFailureNeverPropagates ==
    Returned => /\ response.status = "ok"
                /\ response.health_score.computed
                /\ executed[Len(executed)] = "next_actions"

\* C2: a stage that raised contributes nothing to the response: no
\* anomalies and no anomaly cards, the neutral forecast and no forecast card,
\* an empty patterns map and no pattern cards, no budget cards, no
\* financial-health cards.
C2_FailedStageContributesNothing ==
    response.status = "ok" =>
        /\ \A st \in failed \cap Stages : contributed[st] = 0
        /\ "anomaly_detection" \in failed => response.anomalies = <<>>
        /\ "forecast" \in failed =>
              /\ response.forecast.next_month_estimate = 0
              /\ response.forecast.trend = "stable"
              /\ response.forecast.confidence_score = 10
        /\ "pattern_mining" \in failed => DOMAIN response.patterns = {}

\* C4: lambda_handler on a payload without transactions and without
\* monthlyTotals returns at once: no stage and no model call is executed,
\* meta.error is "insufficient_data", insights, anomalies and patterns are
\* empty and the coach is the static placeholder.
C4_InsufficientDataShortCircuit ==
    (entry = "lambda_handler" /\ pc # "handler"
     /\ payload.transactions.n = 0 /\ payload.monthlyTotals.n = 0) =>
        /\ pc = "done"
        /\ executed = <<>>
        /\ llm_calls = 0
        /\ response.status = "ok"
        /\ response.error = "insufficient_data"
        /\ response.insights = <<>>
        /\ response.anomalies = <<>>
        /\ DOMAIN response.patterns = {}
        /\ response.coach = Placeholder

C4_Witness ==
    /\ entry = "lambda_handler" /\ pc = "done"
    /\ response.error = "insufficient_data"
    /\ payload.budgets # <<>>
    /\ payload.financialHealth.period_income > 0

\* C9: every response has at most 12 insight cards, at most 10 anomalies and
\* at most 8 next_actions.
C9_ResponseCaps ==
    response.status = "ok" =>
        /\ Len(response.insights) <= 12
        /\ Len(response.anomalies) <= 10
        /\ Len(response.next_actions) <= 8

C9_Witness ==
    /\ pc = "done" /\ response.status = "ok"
    /\ Len(all_insights) > 12 /\ Len(response.insights) = 12
    /\ Len(anomalies) > 10 /\ Len(response.anomalies) = 10
    /\ Len(build_next_actions_uncapped(all_insights, TRUE)) > 8
    /\ Len(response.next_actions) = 8

Rank(c) == IF c.priority = "HIGH" THEN 0 ELSE IF c.priority = "MEDIUM" THEN 1 ELSE 2

\* C10: the insights of a response are ordered HIGH, MEDIUM, LOW, and no
\* card cut off by the truncation to 12 has a strictly higher priority than
\* a card that was kept, also when the model rewrote the cards.
C10_PrioritySortedBeforeTruncation ==
    response.status = "ok" =>
        /\ \A i, j \in 1..Len(response.insights) :
              i < j => Rank(response.insights[i]) <= Rank(response.insights[j])
        /\ \A i \in 1..Len(response.insights) :
              \A j \in (Len(response.insights) + 1)..Len(all_insights) :
                  Rank(all_insights[j]) >= Rank(response.insights[i])

C10_Witness ==
    /\ pc = "done" /\ response.status = "ok"
    /\ Len(all_insights) > 12
    /\ {response.insights[i].priority : i \in 1..12} = Priorities
    /\ answer.call = "ok" /\ "llm_enrichment" \notin failed
    /\ \E i \in 1..12 : response.insights[i].title.tok = <<"llm_title">>
    \* a HIGH card was built after a LOW one
    /\ contributed["budget_insights"] > 0 /\ contributed["pattern_mining"] > 1

----------------------------------------------------------------------------
(* LLMEnricher.enrich called on its own                                    *)

\* the cards handed to enrich: card i has id i
SampleCard(i) ==
    Card(i, IF i % 2 = 1 THEN "anomaly_detection" ELSE "spending_summary",
         IF i % 2 = 1 THEN "HIGH" ELSE "LOW",
         Str(<<"title", ToString(i)>>, 22), Str(<<"summary", ToString(i)>>, 80),
         40 + i, <<i>>,
         IF i % 2 = 1 THEN <<Str(<<"action", ToString(i)>>, 56)>> ELSE <<>>)

CardLists == {[i \in 1..n |-> SampleCard(i)] : n \in 0..MaxCards}

\* (title, summary, actions) of an enrichment entry
EntryBodies ==
    {<<Txt("llm_title", 90), Txt("llm_card_summary", 200),
       <<Txt("llm_action_1", 120), Txt("llm_action_2", 30)>>>>,
     <<Txt("llm_title", 30), Num, <<>>>>,
     <<Absent, Absent, <<Txt("llm_action_1", 20), Num>>>>,
     <<Num, Absent, <<>>>>,
     <<Txt("llm_title_b", 30), Absent, <<>>>>,
     <<Absent, Txt("llm_card_summary", 20),
       <<Txt("llm_action_1", 20), Txt("llm_action_2", 20), Txt("llm_action_3", 20),
         Num>>>>}

\* id 0 stands for an entry without "id"
Entries == {Enrichment(id, b[1], b[2], b[3]) : id \in {0, 1, 2, UnknownId}, b \in EntryBodies}

EntryLists == UNION {[1..n -> Entries] : n \in 0..MaxEnrichments}

\* (coach_kind, headline, summary)
CoachValues ==
    {<<"absent", Absent, Absent>>, <<"null", Absent, Absent>>,
     <<"empty_dict", Absent, Absent>>,
     <<"dict", Txt("llm_headline", 60), Txt("llm_summary", 200)>>,
     <<"dict", Txt("llm_headline", 130), Txt("llm_summary", 200)>>,
     <<"dict", Absent, Absent>>}

Answers ==
    {CallFails, Unparsable, Answer("ok", "non_dict", "absent", Absent, Absent, <<>>)}
    \cup {Answer("ok", "dict", c[1], c[2], c[3], es) : c \in CoachValues, es \in EntryLists}

InitEnrich ==
    /\ e_pc = "call"
    /\ e_in \in CardLists
    /\ e_fc \in {Forecast(100, "up", 36, "ema_lr_blend"), NeutralForecast}
    /\ e_ans \in Answers
    /\ e_out = NoEnrichResult
    /\ RunIdle /\ DetectIdle /\ ForecastIdle /\ CallIdle

EnrichCall ==
    /\ e_pc = "call"
    /\ e_out' = enrich(e_in, e_fc, e_ans)
    /\ e_pc' = "returned"
    /\ UNCHANGED <<e_in, e_fc, e_ans, runVars, detVars, fcVars, callVars>>

NextEnrich == EnrichCall

SpecEnrich == InitEnrich /\ [][NextEnrich]_vars

\* an exception occurred inside the call: the model call failed, the output
\* could not be parsed, or a field of the output had the wrong type
ExceptionInEnrich == e_out.status = "error" \/ (e_ans.call = "ok" /\ e_ans.body = "unparsable")

SameText(c, d) == c.title = d.title /\ c.summary = d.summary /\ c.actions = d.actions

\* C3: whenever an exception occurs in enrich, the returned coach is the
\* fallback narrative and the title, summary and actions of every card are
\* what they were before the call.
C3_ExceptionLeavesCardsUnmodified ==
    (e_pc = "returned" /\ ExceptionInEnrich) =>
        /\ e_out.coach = FallbackCoach(e_fc)
        /\ Len(e_out.insights) = Len(e_in)
        /\ \A i \in 1..Len(e_in) : SameText(e_out.insights[i], e_in[i])

SameFrame(c, d) ==
    /\ c.id = d.id /\ c.type = d.type /\ c.priority = d.priority
    /\ c.confidence = d.confidence /\ c.evidence = d.evidence

\* C5: enrich returns the same cards in the same order whatever the model
\* answers: none added, none removed, id, type, priority, confidence and
\* evidence of every card unchanged, and no id that only the model's
\* card_enrichments mention.
C5_EnrichKeepsCardFrame ==
    e_pc = "returned" =>
        /\ Len(e_out.insights) = Len(e_in)
        /\ \A i \in 1..Len(e_in) : SameFrame(e_out.insights[i], e_in[i])
        /\ CardIds(e_out.insights) = CardIds(e_in)

C5_Witness ==
    /\ e_pc = "returned" /\ e_out.status = "success"
    /\ Len(e_in) = 2
    /\ \E i \in 1..Len(e_ans.card_enrichments) : e_ans.card_enrichments[i].id = UnknownId
    /\ e_out.insights[1].title = Str(<<"llm_title">>, 70)
    /\ e_out.insights[1].summary = Str(<<"llm_card_summary">>, 180)
    /\ e_out.insights[1].actions = <<Str(<<"llm_action_1">>, 100), Str(<<"llm_action_2">>, 30)>>
    /\ e_out.insights[2] = e_in[2]

----------------------------------------------------------------------------
(* AnomalyDetector                                                         *)
(* Amounts are whole numbers of quarter kurus (0.0025 TL), so that two     *)
(* different amounts can round to the same amount in kurus.                *)

Z_THRESHOLD == 2        \* ANOMALY_Z_THRESHOLD = 2.0
MinTransactions == 5    \* len(transactions) < 5
DetectCap == 15         \* anomalies[:15]
UnitsPerKurus == 4

\* round(amt, 2): the nearest whole kurus, in quarter kurus (no amount of
\* the model lies halfway)
Round2(amt) == ((amt + 2) \div UnitsPerKurus) * UnitsPerKurus

RECURSIVE InsertSorted(_, _)
InsertSorted(x, s) ==
    IF s = <<>> THEN <<x>>
    ELSE IF x <= Head(s) THEN <<x>> \o s
    ELSE <<Head(s)>> \o InsertSorted(x, Tail(s))

RECURSIVE Sorted(_)
Sorted(s) == IF s = <<>> THEN <<>> ELSE InsertSorted(Head(s), Sorted(Tail(s)))

RECURSIVE SumSquares(_)
SumSquares(s) == IF s = <<>> THEN 0 ELSE Head(s) * Head(s) + SumSquares(Tail(s))

\* _calc_stats: none for fewer than 2 values; the mean is sum/count and the
\* sample variance is dev/(count*(count-1)) with dev = count*sumsq - sum^2
\* (std > 0 iff dev > 0); q1 = s[n // 4], q3 = s[3n // 4] of the sorted list
CalcStats(values) ==
    IF Len(values) < 2
    THEN [none |-> TRUE, count |-> Len(values), sum |-> 0, dev |-> 0, q1 |-> 0,
          q3 |-> 0, iqr |-> 0]
    ELSE LET srt == Sorted(values)
             n == Len(values)
             q1 == srt[(n \div 4) + 1]
             q3 == srt[((3 * n) \div 4) + 1]
         IN [none |-> FALSE, count |-> n, sum |-> SeqSum(values),
             dev |-> n * SumSquares(values) - SeqSum(values) * SeqSum(values),
             q1 |-> q1, q3 |-> q3, iqr |-> q3 - q1]

\* (amt - mean) / std > num / den, for std > 0
ZAbove(amt, st, num, den) ==
    LET d == st.count * amt - st.sum
    IN /\ d > 0
       /\ den * den * d * d * (st.count - 1) > num * num * st.count * st.dev

\* Python's round(z, 2) of z = (amt - mean) / std, in hundredths, for the
\* z that can be the maximum (z <= 0 never is, z_score starts at 0.0)
\* the largest k in lo..hi with k * k <= x, by bisection
RECURSIVE ISqrt(_, _, _)
ISqrt(x, lo, hi) ==
    IF lo = hi THEN lo
    ELSE LET mid == (lo + hi + 1) \div 2
         IN IF mid * mid <= x THEN ISqrt(x, mid, hi) ELSE ISqrt(x, lo, mid - 1)

\* the quotient and remainder of (a * 10^digits) by b, one decimal digit at
\* a time; q and r are those of the digits done so far
RECURSIVE LongDiv(_, _, _, _)
LongDiv(q, r, b, digits) ==
    IF digits = 0 THEN [q |-> q, r |-> r]
    ELSE LongDiv(10 * q + (10 * r) \div b, (10 * r) % b, b, digits - 1)

Z100(amt, st) ==
    LET d == st.count * amt - st.sum
        A == d * d * (st.count - 1)
        B == st.count * st.dev
        \* 10000 * z^2 = 10000 * A / B
        X == LongDiv(A \div B, A % B, B, 4)
        q == X.q
        r == X.r
        f == ISqrt(q, 0, Min(q, 46340))
    IN IF d <= 0 THEN 0
       ELSE IF q > f * f + f \/ (q = f * f + f /\ 4 * r >= B) THEN f + 1 ELSE f

AmountsWhere(txs, Test(_)) ==
    LET sel == SelectIdx(txs, Test, 1) IN [i \in 1..Len(sel) |-> sel[i].amount]

MethodsIqrLast(catHit, merHit, iqrHit, gloHit) ==
    (IF catHit THEN <<"category_zscore">> ELSE <<>>)
    \o (IF merHit THEN <<"merchant_zscore">> ELSE <<>>)
    \o (IF gloHit THEN <<"global_zscore">> ELSE <<>>)
    \o (IF iqrHit THEN <<"iqr">> ELSE <<>>)
\* methods.append(...) in the order of the four tests; "+".join(methods) is
\* kept as the sequence of names
Methods(catHit, merHit, iqrHit, gloHit) ==
    (IF catHit THEN <<"category_zscore">> ELSE <<>>)
    \o (IF merHit THEN <<"merchant_zscore">> ELSE <<>>)
    \o (IF iqrHit THEN <<"iqr">> ELSE <<>>)
    \o (IF gloHit THEN <<"global_zscore">> ELSE <<>>)

\* the loop body of detect for one transaction: the four detectors
Examine(tx, txs) ==
    LET SameCat(t) == t.category = tx.category
        SameMerchant(t) == t.merchant = tx.merchant
        Whole(t) == TRUE
        cs == CalcStats(AmountsWhere(txs, SameCat))
        ms == CalcStats(AmountsWhere(txs, SameMerchant))
        gs == CalcStats(AmountsWhere(txs, Whole))
        amt == tx.amount
        catOn == ~cs.none /\ cs.dev > 0
        merOn == ~ms.none /\ ms.dev > 0 /\ ms.count >= 3
        catHit == catOn /\ ZAbove(amt, cs, Z_THRESHOLD, 1)
        merHit == merOn /\ ZAbove(amt, ms, Z_THRESHOLD, 1)
        \* amt > q3 + 1.5 * iqr
        iqrHit == ~cs.none /\ cs.iqr > 0 /\ 2 * amt > 2 * cs.q3 + 3 * cs.iqr
        \* z_global > z_threshold + 0.5
        gloHit == ~gs.none /\ gs.dev > 0 /\ ZAbove(amt, gs, 2 * Z_THRESHOLD + 1, 2)
        methods == Methods(catHit, merHit, iqrHit, gloHit)
        z100 == Max(Max(IF catOn THEN Z100(amt, cs) ELSE 0,
                        IF merOn THEN Z100(amt, ms) ELSE 0),
                    IF gloHit THEN Z100(amt, gs) ELSE 0)
        above(num) == \/ catOn /\ ZAbove(amt, cs, num, 1)
                      \/ merOn /\ ZAbove(amt, ms, num, 1)
                      \/ gloHit /\ ZAbove(amt, gs, num, 1)
    IN [flagged |-> methods # <<>>,
        anomaly |-> [merchant |-> tx.merchant, amount |-> Round2(amt),
                     date |-> tx.date, category |-> tx.category,
                     z_score |-> z100, iqr_flag |-> iqrHit,
                     detection_method |-> methods,
                     severity |-> IF above(3) \/ (iqrHit /\ above(2))
                                  THEN "HIGH" ELSE "MEDIUM"]]

\* f"{merchant}|{amt}|{tx_date}" with the amount as given, not rounded
DedupKey(tx) == <<tx.merchant, tx.amount, tx.date>>

\* "for tx in transactions": skip a transaction whose key was flagged before
RECURSIVE DetectLoop(_, _, _)
DetectLoop(txs, i, seen) ==
    IF i > Len(txs) THEN <<>>
    ELSE IF DedupKey(txs[i]) \in seen THEN DetectLoop(txs, i + 1, seen)
    ELSE LET r == Examine(txs[i], txs)
         IN IF r.flagged
            THEN <<r.anomaly>> \o DetectLoop(txs, i + 1, seen \cup {DedupKey(txs[i])})
            ELSE DetectLoop(txs, i + 1, seen)

\* anomalies.sort(key=(-1 if HIGH else 0, -z_score)): stable
Before(a, b) ==
    LET ra == IF a.severity = "HIGH" THEN 0 ELSE 1
        rb == IF b.severity = "HIGH" THEN 0 ELSE 1
    IN ra < rb \/ (ra = rb /\ a.z_score > b.z_score)

RECURSIVE InsertAnomaly(_, _)
InsertAnomaly(x, s) ==
    IF s = <<>> THEN <<x>>
    ELSE IF Before(Head(s), x) \/ ~Before(x, Head(s))
    THEN <<Head(s)>> \o InsertAnomaly(x, Tail(s))
    ELSE <<x>> \o s

RECURSIVE SortAnomalies(_)
AsFlagged(s) == s
SortAnomalies(s) ==
    IF s = <<>> THEN <<>>
    ELSE InsertAnomaly(s[Len(s)], SortAnomalies(SubSeq(s, 1, Len(s) - 1)))

TooFewOffByOne(txs) == Len(txs) < MinTransactions - 1
TooFew(txs) == Len(txs) < MinTransactions

IsMalformed(tx) == ~tx.ok

\* AnomalyDetector.detect: the returned list, or raised = TRUE when tx.get
\* is called on an entry that is not an object
detect(txs) ==
    IF TooFew(txs) THEN [raised |-> FALSE, anomalies |-> <<>>]
    ELSE IF SelectIdx(txs, IsMalformed, 1) # <<>>
    THEN [raised |-> TRUE, anomalies |-> <<>>]
    ELSE [raised |-> FALSE,
          anomalies |-> Take(SortAnomalies(DetectLoop(txs, 1, {})), DetectCap)]

----------------------------------------------------------------------------
(* AnomalyDetector.detect called on its own                                *)

\* the head of a transaction list: small purchases at one merchant, the
\* first five of 0.00 and the rest of a quarter kurus
BaseTx(i) == [ok |-> TRUE, merchant |-> "market",
              amount |-> IF i > 5 THEN 1 ELSE 0, date |-> 1, category |-> "Market"]
BaseList(k) == [i \in 1..k |-> BaseTx(i)]

\* an entry of the list that is not an object
MalformedTx == [ok |-> FALSE, merchant |-> "", amount |-> 0, date |-> 0,
                category |-> ""]
ExtraAmounts == {1, 7, 9}
ExtraTxs ==
    [ok : {TRUE}, merchant : {"market", "shop"}, amount : ExtraAmounts,
     date : {1, 2}, category : {"Market"}] \cup {MalformedTx}
ExtraLists == UNION {[1..k -> ExtraTxs] : k \in 0..MaxExtras}

\* ten purchases of one category: nine close to one another and one a
\* hundred times as large.  Amounts are in quarter kurus; every test of
\* detect compares ratios of amounts, so nine purchases near 5 with one of
\* 500 are flagged as nine near 100 TL with one of 10,000 TL are.  The nine
\* are `low` fours, `high` sixes and fives.
OutlierList(low, high) ==
    [i \in 1..10 |->
       [ok |-> TRUE, merchant |-> "market",
        amount |-> IF i = 10 THEN 500
                   ELSE IF i <= low THEN 4 ELSE IF i <= low + high THEN 6 ELSE 5,
        date |-> i, category |-> "Market"]]
OutlierLists == {OutlierList(low, high) : low \in 0..4, high \in 0..4}

TxLists == {BaseList(k) \o x : k \in 0..MaxBase, x \in ExtraLists} \cup OutlierLists

InitDetect ==
    /\ d_pc = "call"
    /\ transactions \in TxLists
    /\ detected = [raised |-> FALSE, anomalies |-> <<>>]
    /\ RunIdle
    /\ EnrichIdle
    /\ ForecastIdle
    /\ CallIdle

DetectCall ==
    /\ d_pc = "call"
    /\ detected' = detect(transactions)
    /\ d_pc' = "done"
    /\ UNCHANGED <<transactions, runVars, enrVars, fcVars, callVars>>

NextDetect == DetectCall

SpecDetect == InitDetect /\ [][NextDetect]_vars

ReportedTriple(a) == <<a.merchant, a.amount, a.date>>

\* C6: in a list returned by detect no two anomalies report the same
\* (merchant, rounded amount, date) triple
C6_ReportedTriplesUnique ==
    (d_pc = "done" /\ ~detected.raised) =>
        \A i, j \in 1..Len(detected.anomalies) :
            i # j => ReportedTriple(detected.anomalies[i])
                     # ReportedTriple(detected.anomalies[j])

\* C7: a list of fewer than 5 entries, whatever the entries are, gives the
\* empty list and no exception
C7_FewTransactionsGiveEmpty ==
    (d_pc = "done" /\ Len(transactions) < MinTransactions) =>
        (~detected.raised /\ detected.anomalies = <<>>)

C7_Witness ==
    /\ d_pc = "done"
    /\ Len(transactions) = MinTransactions - 1
    /\ \E i \in 1..Len(transactions) : IsMalformed(transactions[i])
    /\ ~detected.raised
    /\ detected.anomalies = <<>>

----------------------------------------------------------------------------
(* ForecastEngine                                                          *)
(* Totals are whole TL; the floats of the code are modelled by exact       *)
(* fractions num / den with den > 0.                                       *)

RECURSIVE GCD(_, _)
GCD(a, b) == IF b = 0 THEN a ELSE GCD(b, a % b)
Abs(x) == IF x < 0 THEN -x ELSE x

Frac(n, d) ==
    LET g == GCD(Abs(n), d) IN [num |-> n \div g, den |-> d \div g]
FAdd(a, b) == Frac(a.num * b.den + b.num * a.den, a.den * b.den)
FMul(a, b) == Frac(a.num * b.num, a.den * b.den)
FLe(a, b) == a.num * b.den <= b.num * a.den
FLt(a, b) == a.num * b.den < b.num * a.den
FEq(a, b) == a.num * b.den = b.num * a.den
FMin(a, b) == IF FLt(b, a) THEN b ELSE a
FMax(a, b) == IF FLt(a, b) THEN b ELSE a

\* ai_utils.clamp on fractions
Unclamped(v, lo, hi) == v
clampF(v, lo, hi) == FMax(lo, FMin(hi, v))

\* round(x, 2) in hundredths: the nearest hundredth; where x lies halfway
\* the float nearest to x decides, which is either side (tie_up)
RoundHundredths(x, tie_up) ==
    LET scaled == 100 * x.num
        fl == scaled \div x.den
        rem2 == 2 * (scaled % x.den)
    IN IF rem2 < x.den THEN fl
       ELSE IF rem2 > x.den THEN fl + 1
       ELSE IF tie_up THEN fl + 1 ELSE fl

\* ForecastEngine.ema with alpha = a_num / a_den
RECURSIVE EmaFrom(_, _, _, _, _)
EmaFrom(values, i, result, a_num, a_den) ==
    IF i > Len(values) THEN result
    ELSE EmaFrom(values, i + 1,
                 FAdd(FMul(Frac(a_num, a_den), Frac(values[i], 1)),
                      FMul(Frac(a_den - a_num, a_den), result)),
                 a_num, a_den)
ema(values, a_num, a_den) ==
    IF values = <<>> THEN Frac(0, 1)
    ELSE EmaFrom(values, 2, Frac(values[1], 1), a_num, a_den)

RECURSIVE SumOver(_, _, _)
SumOver(n, Term(_), i) == IF i > n THEN 0 ELSE Term(i) + SumOver(n, Term, i + 1)

\* ForecastEngine.linear_regression over x = 0 .. n-1, for n >= 2; the sums
\* are centred by multiplying with n (cxy = n * numerator, cxx = n *
\* denominator, cyy = n * ss_tot), and 1 - ss_res / ss_tot = cxy^2 / (cxx * cyy)
linear_regression(values) ==
    LET n == Len(values)
        X(i) == i - 1
        Y(i) == values[i]
        XY(i) == (i - 1) * values[i]
        XX(i) == (i - 1) * (i - 1)
        YY(i) == values[i] * values[i]
        sx == SumOver(n, X, 1)
        sy == SumOver(n, Y, 1)
        cxy == n * SumOver(n, XY, 1) - sx * sy
        cxx == n * SumOver(n, XX, 1) - sx * sx
        cyy == n * SumOver(n, YY, 1) - sy * sy
        slope == IF cxx # 0 THEN Frac(cxy, cxx) ELSE Frac(0, 1)
    IN [slope |-> slope,
        intercept |-> FAdd(Frac(sy, n), FMul(FMul(Frac(-1, 1), slope), Frac(sx, n))),
        r_squared |-> IF cyy > 0 THEN FMax(Frac(0, 1), Frac(cxy * cxy, cxx * cyy))
                      ELSE Frac(0, 1)]

SeasonalityMonths == 12

no_seasonality(values, tie_up) == [none |-> TRUE, seasonal_factor |-> 0]
\* ForecastEngine.detect_seasonality: the seasonal factor in hundredths,
\* or none
detect_seasonality(values, tie_up) ==
    LET n == Len(values)
        current == values[n]
        same_month_prev == values[n - SeasonalityMonths + 1]
    IN IF n < SeasonalityMonths THEN [none |-> TRUE, seasonal_factor |-> 0]
       ELSE IF same_month_prev > 0
               /\ 20 * Abs(current - same_month_prev) > 3 * same_month_prev
       THEN [none |-> FALSE,
             seasonal_factor |-> RoundHundredths(Frac(current, same_month_prev), tie_up)]
       ELSE [none |-> TRUE, seasonal_factor |-> 0]

\* sorted(monthly_totals, key=month): stable
RECURSIVE InsertMonth(_, _)
InsertMonth(x, s) ==
    IF s = <<>> THEN <<x>>
    ELSE IF Head(s).month <= x.month THEN <<Head(s)>> \o InsertMonth(x, Tail(s))
    ELSE <<x>> \o s
RECURSIVE SortByMonth(_)
SortByMonth(s) ==
    IF s = <<>> THEN <<>>
    ELSE InsertMonth(s[Len(s)], SortByMonth(SubSeq(s, 1, Len(s) - 1)))

RecentWindow == 3

ForecastResult(est, trend, conf, method, seasonal, blended, recent_avg) ==
    [next_month_estimate |-> est, trend |-> trend, confidence_score |-> conf,
     method |-> method, seasonal |-> seasonal, blended |-> blended,
     recent_avg |-> recent_avg]

TrendOfLastTwo(values, recent_avg) ==
    LET n == Len(values)
    IN IF values[n] > values[n - 1] THEN "up"
       ELSE IF values[n] < values[n - 1] THEN "down" ELSE "stable"
\* the trend of forecast, for n >= 2 values in month order
Trend(values, recent_avg) ==
    LET n == Len(values)
        margin == FMul(recent_avg, Frac(1, 20))
        recent_direction == Frac(values[n] - values[n - 2], 1)
    IN IF n >= 3
       THEN IF FLt(margin, recent_direction) THEN "up"
            ELSE IF FLt(recent_direction, FMul(Frac(-1, 1), margin))
            THEN "down" ELSE "stable"
       ELSE IF values[n] > values[n - 1] THEN "up"
            ELSE IF values[n] < values[n - 1] THEN "down" ELSE "stable"

\* ForecastEngine.forecast; next_month_estimate is in hundredths, and the
\* result also carries the blend as it leaves the clamp and recent_avg
ForecastEngine_forecast(mts, tie_up) ==
    LET srt == SortByMonth(mts)
        values == [i \in 1..Len(srt) |-> srt[i].total]
        n == Len(values)
    IN IF n = 0
       THEN ForecastResult(0, "stable", 10, "none", FALSE, Frac(0, 1), Frac(0, 1))
       ELSE IF n < 2
       THEN ForecastResult(100 * values[1], "stable", 15, "single_value", FALSE,
                           Frac(0, 1), Frac(0, 1))
       ELSE
       LET ema_estimate == ema(values, 7, 20)
           reg == linear_regression(values)
           lr_estimate == FAdd(FMul(reg.slope, Frac(n, 1)), reg.intercept)
           blend0 == FAdd(FMul(ema_estimate, Frac(3, 5)), FMul(lr_estimate, Frac(2, 5)))
           recent == IF n >= RecentWindow
                     THEN SubSeq(values, n - RecentWindow + 1, n) ELSE values
           recent_avg == Frac(SeqSum(recent), Len(recent))
           blended == clampF(blend0, FMul(recent_avg, Frac(1, 2)),
                             FMul(recent_avg, Frac(2, 1)))
           trend == Trend(values, recent_avg)
           conf == confidence(n, reg.r_squared.num, reg.r_squared.den)
           seasonality == detect_seasonality(values, tie_up)
           final == IF seasonality.none THEN blended
                    ELSE FMul(blended, Frac(seasonality.seasonal_factor + 100, 200))
       IN ForecastResult(RoundHundredths(final, tie_up), trend, conf, "ema_lr_blend",
                         ~seasonality.none, blended, recent_avg)

----------------------------------------------------------------------------
(* ForecastEngine.forecast called on its own                               *)

Months == 1..3
Totals == {-3, 0, 1, 2, 5}
MonthEntries == [month : Months, total : Totals]
MonthlyLists == UNION {[1..k -> MonthEntries] : k \in 0..MaxMonths}

\* a year of history: n months in month order, all with total c but the
\* last two
SeasonalList(n, c, prev, last) ==
    [i \in 1..n |->
       [month |-> i, total |-> IF i = n THEN last ELSE IF i = n - 1 THEN prev ELSE c]]
SeasonalLists ==
    {SeasonalList(n, c, prev, last) :
       n \in (SeasonalityMonths - 1)..(SeasonalityMonths + 1),
       c \in {1, 2, 5}, prev \in {0, 1, 2, 5}, last \in {0, 1, 2, 5}}

InitForecast ==
    /\ f_pc = "call"
    /\ monthly_totals \in MonthlyLists \cup SeasonalLists
    /\ fc_out = ForecastResult(0, "none", 0, "unset", FALSE, Frac(0, 1), Frac(0, 1))
    /\ RunIdle
    /\ EnrichIdle
    /\ DetectIdle
    /\ CallIdle

ForecastCall ==
    /\ f_pc = "call"
    /\ \E tie_up \in BOOLEAN : fc_out' = ForecastEngine_forecast(monthly_totals, tie_up)
    /\ f_pc' = "done"
    /\ UNCHANGED <<monthly_totals, runVars, enrVars, detVars, callVars>>

NextForecast == ForecastCall

SpecForecast == InitForecast /\ [][NextForecast]_vars

Blended(fc) == fc.method = "ema_lr_blend"
BandLo(fc) == FMul(fc.recent_avg, Frac(1, 2))
BandHi(fc) == FMul(fc.recent_avg, Frac(2, 1))
InBand(x, fc) == FLe(BandLo(fc), x) /\ FLe(x, BandHi(fc))
Estimate(fc) == Frac(fc.next_month_estimate, 100)
HalfHundredth == Frac(1, 200)

\* C8 as stated: for n >= 2 the blend after the clamp lies in
\* [0.5 * m, 2.0 * m], m the mean of the last min(3, n) totals, and without
\* seasonality so does the returned next_month_estimate
C8_EstimateInBand ==
    (f_pc = "done" /\ Blended(fc_out)) =>
        /\ InBand(fc_out.blended, fc_out)
        /\ ~fc_out.seasonal => InBand(Estimate(fc_out), fc_out)

\* C8 amended: for n >= 2 the blend after the clamp lies in [0.5 * m, 2.0 * m]
\* when m >= 0 and equals 0.5 * m when m < 0; without seasonality the
\* returned next_month_estimate is the blend rounded to 2 decimals, so it is
\* within 0.005 of the blend
C8_EstimateInBandRounded ==
    (f_pc = "done" /\ Blended(fc_out)) =>
        /\ fc_out.recent_avg.num >= 0 => InBand(fc_out.blended, fc_out)
        /\ fc_out.recent_avg.num < 0 => FEq(fc_out.blended, BandLo(fc_out))
        /\ ~fc_out.seasonal =>
              /\ FLe(FAdd(fc_out.blended, FMul(Frac(-1, 1), HalfHundredth)),
                     Estimate(fc_out))
              /\ FLe(Estimate(fc_out), FAdd(fc_out.blended, HalfHundredth))

\* the clamp cut a blend above 2.0 * m of a positive m down to 2.0 * m, and
\* the rounded estimate left the band
C8_Witness ==
    /\ f_pc = "done"
    /\ Blended(fc_out)
    /\ Len(monthly_totals) >= RecentWindow
    /\ fc_out.recent_avg.num > 0
    /\ FEq(fc_out.blended, BandHi(fc_out))
    /\ ~fc_out.seasonal
    /\ ~InBand(Estimate(fc_out), fc_out)

----------------------------------------------------------------------------
(* compute_health_score called on its own *)

MaxScoredBudgets == 5
MaxGoals == 2

\* k budgets of which the first `over` are above 100 percent
ScoredBudgets(k, over) ==
    [i \in 1..k |-> Budget(BudgetNames[i], IF i <= over THEN 120 ELSE 60)]
BudgetLists ==
    UNION {{ScoredBudgets(k, over) : over \in 0..k} : k \in 0..MaxScoredBudgets}

GoalChoices ==
    {Goal("active", 100, 0), Goal("active", 100, 50), Goal("active", 100, 150),
     Goal("active", 0, 0), Goal("completed", 50, 50)}
GoalLists ==
    UNION {[1..k -> GoalChoices] : k \in 0..MaxGoals}

HealthInputs ==
    [fh : {FH(1000, 1000 - net, net, rate) : net \in {-700, -500, 0, 50},
                                              rate \in {-5, 0, 10, 25}},
     budgets : BudgetLists,
     anomalies : {AnomalyList(k, 0) : k \in 0..3},
     goals : GoalLists]

InitHealth ==
    /\ c_pc = "call"
    /\ c_in \in HealthInputs
    /\ c_out = NoHealthScore
    /\ RunIdle /\ EnrichIdle /\ DetectIdle /\ ForecastIdle

HealthCall ==
    /\ c_pc = "call"
    /\ c_out' = compute_health_score(c_in.fh, c_in.budgets, c_in.anomalies,
                                     c_in.goals)
    /\ c_pc' = "returned"
    /\ UNCHANGED <<c_in, runVars, enrVars, detVars, fcVars>>

NextHealth == HealthCall
SpecHealth == InitHealth /\ [][NextHealth]_vars

OverCount == Len(SelectIdx(c_in.budgets, OverBudget, 1))
ActiveGoals == SelectIdx(c_in.goals, IsActive, 1)
AllHaveTarget == \A i \in 1..Len(ActiveGoals) : ActiveGoals[i].target_amount > 0
\* 15 times the average of min(current / target, 1) over the active goals,
\* cut to a whole number (all the targets drawn are 100)
StatedGoalPoints ==
    (15 * SeqSum([i \in 1..Len(ActiveGoals) |->
                    Min(ActiveGoals[i].current_amount, 100)]))
    \div (100 * Len(ActiveGoals))

\* C11: compute_health_score returns an integer score in 0..100 that is the
\* sum of its five components, each between 0 and its weight (30, 25, 20, 15,
\* 10) and equal to the stated tier: savings 0/10/20/30 for a rate below 0,
\* below 10, below 20, from 20; budget 25 * (1 - over / total), or 12 without
\* budgets; trend 20 for a net above 0, 10 from -500, else 0; goals 15 times
\* the average completion of the active goals, or 8 without active goals;
\* anomalies 10 for none, 5 for one or two, else 0.
C11_HealthScoreIsSumOfStatedTiers ==
    c_pc = "returned" =>
        LET b == c_out.breakdown
            n == Len(c_in.budgets)
            rate == c_in.fh.savings_rate
            net == c_in.fh.period_net
            k == Len(c_in.anomalies)
        IN /\ c_out.score \in 0..100
           /\ c_out.score = b.savings + b.budget + b.trend + b.goals + b.anomalies
           /\ b.savings \in 0..30 /\ b.budget \in 0..25 /\ b.trend \in 0..20
           /\ b.goals \in 0..15 /\ b.anomalies \in 0..10
           /\ b.savings = (IF rate < 0 THEN 0 ELSE IF rate < 10 THEN 10
                            ELSE IF rate < 20 THEN 20 ELSE 30)
           /\ b.budget = (IF n = 0 THEN 12 ELSE (25 * (n - OverCount)) \div n)
           /\ b.trend = (IF net > 0 THEN 20 ELSE IF net >= -500 THEN 10 ELSE 0)
           /\ (ActiveGoals = <<>> => b.goals = 8)
           /\ (ActiveGoals # <<>> /\ AllHaveTarget => b.goals = StatedGoalPoints)
           /\ b.anomalies = (IF k = 0 THEN 10 ELSE IF k <= 2 THEN 5 ELSE 0)

----------------------------------------------------------------------------
(* Confidence values *)

Confidences(cards) == {cards[i].confidence : i \in 1..Len(cards)}

\* C12: every confidence value is a whole number from 10 to 98: the
\* confidence of every card InsightBuilder appended (whatever its kind) and
\* of every card returned, and the confidence_score of the forecast once
\* the forecast stage has run.
C12_ConfidenceInRange ==
    /\ Confidences(all_insights) \subseteq 10..98
    /\ (\E i \in 1..Len(executed) : executed[i] = "forecast")
          => forecast.confidence_score \in 10..98
    /\ (pc = "done" /\ response.status = "ok")
          => /\ Confidences(response.insights) \subseteq 10..98
             /\ response.forecast.confidence_score \in 10..98

C12_Witness ==
    /\ pc = "done" /\ response.status = "ok"
    /\ Cardinality(Confidences(response.insights)) >= 6
    /\ Cardinality({response.insights[i].type : i \in 1..Len(response.insights)}) >= 6
    /\ response.forecast.method = "ema_lr_blend"

----------------------------------------------------------------------------
(* Invocations of the text model *)

AfterStep5 == pc \in {"build", "done"}
Sparse == payload.transactions.n < 6 /\ payload.monthlyTotals.n < 2

\* C13: run_analysis invokes the text model at most once; it invokes it zero
\* times when skipLLM is set, when the input is sparse (fewer than 6
\* transactions and fewer than 2 monthly totals) or when no card was built,
\* and then the coach is the fallback narrative, its headline chosen by the
\* trend of the forecast.
C13_AtMostOneModelCall ==
    /\ llm_calls <= 1
    /\ (AfterStep5 /\ (payload.skipLLM \/ Sparse \/ all_insights = <<>>))
          => /\ llm_calls = 0
             /\ coach.kind = "fallback"
             /\ coach.headline.tok =
                   (IF forecast.trend = "up"
                    THEN <<"Dikkat: harcamalar artis egiliminde!">>
                    ELSE IF forecast.trend = "down"
                    THEN <<"Harcamalariniz dusus egiliminde.">>
                    ELSE <<"period analizi tamamlandi.">>)
             /\ coach.headline.len > 0 /\ coach.summary.len > 0

C13_Witness ==
    /\ pc = "done" /\ response.status = "ok"
    /\ ~payload.skipLLM /\ Sparse /\ all_insights # <<>>
    /\ llm_calls = 0 /\ response.coach.kind = "fallback"

----------------------------------------------------------------------------
(* What the text model cannot change *)

SameFrames(cs, ds) ==
    /\ Len(cs) = Len(ds)
    /\ \A i \in 1..Len(cs) :
          /\ cs[i].type = ds[i].type /\ cs[i].priority = ds[i].priority
          /\ cs[i].confidence = ds[i].confidence /\ cs[i].evidence = ds[i].evidence

\* C14: the numeric results do not depend on the text model.  Whatever the
\* model does in step 5 (fail, answer nonsense, answer a valid or an invalid
\* object), forecast, anomalies, patterns and health_score stay as computed
\* and the cards keep their number, order, type, priority, confidence and
\* evidence; the response is then built from these values and from a
\* cache_key that reads the payload only.  Two runs on one payload that
\* differ only in the model's behaviour therefore return the same values.
C14_NumericResultsIgnoreModel ==
    [][/\ pc = "step5" =>
            /\ <<forecast, anomalies, all_patterns, health_score>>'
                 = <<forecast, anomalies, all_patterns, health_score>>
            /\ SameFrames(all_insights', all_insights)
            /\ (all_insights # <<>> =>
                  \A ans \in RunAnswers(all_insights) :
                     SameFrames(enrich(all_insights, forecast, ans).insights,
                                all_insights))
       /\ (pc = "build" /\ pc' = "done") =>
            /\ response'.forecast = forecast
            /\ response'.anomalies = Take(anomalies, AnomaliesCap)
            /\ response'.patterns = all_patterns
            /\ response'.health_score = health_score
            /\ response'.cache_key =
                  [period |-> "2025-03", tx_count |-> payload.transactions.n,
                   monthly_count |-> payload.monthlyTotals.n,
                   total |-> 1000 * payload.monthlyTotals.n]
            /\ SameFrames(response'.insights, Take(all_insights, InsightsCap))
      ]_vars

C14_Witness ==
    /\ pc = "done" /\ response.status = "ok"
    /\ llm_calls = 1 /\ answer.call = "ok" /\ response.coach.kind = "llm"
    /\ \E i \in 1..Len(response.insights) :
          response.insights[i].title.tok = <<"llm_title">>
    /\ response.health_score.computed /\ response.anomalies # <<>>
    /\ response.forecast.method = "ema_lr_blend"

----------------------------------------------------------------------------
(* PatternMiner.category_shifts and the cards built from it, invoked twice  *)
(* on the same monthly totals                                              *)

MaxCategories == 3
ShiftsCap == 6          \* shifts[:6]
ShiftMinPrev == 50      \* prev_avg > 50
ShiftMinPct == 25       \* abs(change_pct) > 25
ShiftHighPct == 50      \* abs(change_pct) > 50

CategoryNames == <<"Fatura", "Giyim", "Market", "Ulasim", "Egitim">>

\* (amount of a category in the previous month, amount in the current month)
MonthPairs == {<<100, 140>>, <<200, 280>>, <<200, 40>>, <<0, 100>>}

\* all_cats is a set of strings: the order "for cat in all_cats" visits it in
\* is fixed by the string hashes of the process, which differ from one
\* process to the next; any order of the categories can occur
IterationOrders(n) ==
    {o \in [1..n -> 1..n] : \A i, j \in 1..n : o[i] = o[j] => i = j}

\* the shift of category c between the previous and the current month;
\* the pairs drawn give whole percentages, so round(change_pct, 1) is exact
ShiftOf(cats, c) ==
    LET prev == cats[c][1]
        curr == cats[c][2]
        diff == IF curr >= prev THEN curr - prev ELSE prev - curr
    IN [found |-> prev > ShiftMinPrev /\ diff * 100 > ShiftMinPct * prev,
        shift |-> [category |-> CategoryNames[c],
                   severity |-> IF prev > 0 /\ diff * 100 > ShiftHighPct * prev
                                THEN "HIGH" ELSE "MEDIUM",
                   abs_change_pct |-> IF prev > 0 THEN (diff * 100) \div prev ELSE 0]]

\* shifts.sort(key=abs(change_pct), reverse=True): stable, equal keys keep
\* the order in which they were appended
RECURSIVE InsertShift(_, _)
InsertShift(sorted, s) ==
    IF sorted = <<>> THEN <<s>>
    ELSE IF Head(sorted).abs_change_pct >= s.abs_change_pct
         THEN <<Head(sorted)>> \o InsertShift(Tail(sorted), s)
         ELSE <<s>> \o sorted

RECURSIVE SortShifts(_)
SortShifts(shifts) ==
    IF shifts = <<>> THEN <<>>
    ELSE InsertShift(SortShifts(Take(shifts, Len(shifts) - 1)), shifts[Len(shifts)])

\* category_shifts on two months; order is the iteration order of all_cats
category_shifts(cats, order) ==
    LET visited == [k \in 1..Len(order) |-> ShiftOf(cats, order[k])]
        found == {k \in 1..Len(order) : visited[k].found}
        RECURSIVE Collect(_)
        Collect(k) == IF k > Len(order) THEN <<>>
                      ELSE (IF k \in found THEN <<visited[k].shift>> ELSE <<>>)
                           \o Collect(k + 1)
        shifts == Collect(1)
    IN IF shifts = <<>> THEN <<>>
       ELSE [category_shifts |-> [shifts |-> Take(SortShifts(shifts), ShiftsCap)]]

ShiftInputs == [1..MaxCategories -> MonthPairs]

InitShifts ==
    /\ c_pc = "call"
    /\ c_in \in ShiftInputs
    /\ c_out = <<>>
    /\ RunIdle /\ EnrichIdle /\ DetectIdle /\ ForecastIdle

\* one invocation: step 3 stores the result and from_patterns builds the cards
ShiftsCall ==
    /\ c_pc \in {"call", "again"}
    /\ \E order \in IterationOrders(Len(c_in)) :
          c_out' = Append(c_out, from_patterns(category_shifts(c_in, order), 0))
    /\ c_pc' = IF c_pc = "call" THEN "again" ELSE "returned"
    /\ UNCHANGED <<c_in, runVars, enrVars, detVars, fcVars>>

NextShifts == ShiftsCall
SpecShifts == InitShifts /\ [][NextShifts]_vars

CardText(c) == <<c.type, c.priority, c.title, c.summary>>

\* C15: two invocations on identical input return the same sequence of
\* cards (type, priority, title and summary equal position by position),
\* also when several categories tie in the ranking of the shifts and
\* whatever order the set of categories is iterated in.
C15_SameInputSameCards ==
    c_pc = "returned" =>
        /\ Len(c_out[1]) = Len(c_out[2])
        /\ \A i \in 1..Len(c_out[1]) : CardText(c_out[1][i]) = CardText(c_out[2][i])

----------------------------------------------------------------------------
(* build_next_actions and its copy _build_next_actions called on their own *)

MaxActionCards == 5

CardKinds == {"low_plain", "high_plain", "three_actions", "twin_actions",
              "shared_action"}

\* card i of a list: without actions (LOW or HIGH), with three actions of
\* its own, with two actions that agree on their first 40 characters, or
\* with one action that other cards carry as well
ActionCard(i, kind) ==
    Card(i, "budget_forecast",
         IF kind \in {"high_plain", "twin_actions"} THEN "HIGH" ELSE "LOW",
         Str(<<"card_title", i>>, 30), Str(<<"card_summary", i>>, 60), 95, <<>>,
         CASE kind = "three_actions" ->
                  <<Str(<<"action", i, 1>>, 45), Str(<<"action", i, 2>>, 20),
                    Str(<<"action", i, 3>>, 20)>>
           [] kind = "twin_actions" ->
                  <<Str(<<"long_action", i>>, 50), Str(<<"long_action", i>>, 60)>>
           [] kind = "shared_action" -> <<Str(<<"shared_action">>, 25)>>
           [] OTHER -> <<>>)

InitActions ==
    /\ c_pc = "call"
    /\ \E n \in 0..MaxActionCards : \E kinds \in [1..n -> CardKinds] :
          \E fn \in {"build_next_actions", "_build_next_actions"} :
             c_in = [fn |-> fn,
                     insights |-> [i \in 1..n |-> ActionCard(i, kinds[i])]]
    /\ c_out = <<>>
    /\ RunIdle /\ EnrichIdle /\ DetectIdle /\ ForecastIdle

ActionsCall ==
    /\ c_pc = "call"
    /\ c_out' = build_next_actions(c_in.insights, c_in.fn = "build_next_actions")
    /\ c_pc' = "returned"
    /\ UNCHANGED <<c_in, runVars, enrVars, detVars, fcVars>>

NextActions == ActionsCall
SpecActions == InitActions /\ [][NextActions]_vars

\* what the stated rule extracts from one card: its first two actions, or
\* its title when it has no action and is HIGH
Extracted(card) ==
    IF card.actions # <<>>
    THEN {card.actions[j] : j \in 1..Min(2, Len(card.actions))}
    ELSE IF card.priority = "HIGH" THEN {card.title} ELSE {}

NothingExtracted == \A i \in 1..Len(c_in.insights) : Extracted(c_in.insights[i]) = {}

\* C16: for every card list build_next_actions returns a list that is never
\* empty, has at most 8 entries, at most 2 of them from one card and no two
\* with the same first 40 characters; every entry is an action (one of the
\* first two) or the title (HIGH card without actions) of the card it names,
\* in card order; when nothing was extracted the result is exactly the
\* three generic default actions.
C16_NextActionsShape ==
    c_pc = "returned" =>
        /\ c_out # <<>>
        /\ Len(c_out) <= 8
        /\ \A i \in 1..Len(c_in.insights) :
              Cardinality({k \in 1..Len(c_out) : c_out[k].source_insight = i}) <= 2
        /\ \A k, l \in 1..Len(c_out) :
              Prefix(c_out[k].title, 40) = Prefix(c_out[l].title, 40) => k = l
        /\ NothingExtracted => c_out = DefaultActions
        /\ ~NothingExtracted =>
              /\ \A k \in 1..Len(c_out) :
                    /\ c_out[k].source_insight \in 1..Len(c_in.insights)
                    /\ c_out[k].title \in Extracted(c_in.insights[c_out[k].source_insight])
              /\ \A k, l \in 1..Len(c_out) :
                    k <= l => c_out[k].source_insight <= c_out[l].source_insight

----------------------------------------------------------------------------
(* The cache key of two payloads *)

MaxTotals == 2

TotalLists == UNION {[1..n -> {0, 100, 200}] : n \in 0..MaxTotals}

KeyViews ==
    [period : {"2025-03", "2025-04"}, tx_count : {0, 6}, totals : TotalLists,
     budget_count : {0, 2}, skipLLM : BOOLEAN]

InitCacheKey ==
    /\ c_pc = "call"
    /\ c_in \in KeyViews \X KeyViews
    /\ c_out = <<NoCacheKey, NoCacheKey>>
    /\ RunIdle /\ EnrichIdle /\ DetectIdle /\ ForecastIdle

\* run_analysis on each of the two payloads, as far as the key goes
CacheKeyCall ==
    /\ c_pc = "call"
    /\ c_out' = <<cache_key(c_in[1]), cache_key(c_in[2])>>
    /\ c_pc' = "returned"
    /\ UNCHANGED <<c_in, runVars, enrVars, detVars, fcVars>>

NextCacheKey == CacheKeyCall
SpecCacheKey == InitCacheKey /\ [][NextCacheKey]_vars

FourValues(p) == <<p.period, p.tx_count, Len(p.totals), SeqSum(p.totals)>>

----------------------------------------------------------------------------
(* The coach of the response *)

\* C18: in every response of run_analysis the coach has a non-empty
\* headline and a non-empty summary: the model's coach is returned only if
\* it is an object with a non-empty headline of at most 120 characters and
\* a non-empty summary, and in every other case the coach is the fallback
\* narrative.
C18_CoachAlwaysValid ==
    (pc = "done" /\ response.status = "ok") =>
        /\ response.coach.headline.len > 0
        /\ response.coach.summary.len > 0
        /\ response.coach.kind \in {"llm", "fallback"}
        /\ response.coach.kind = "llm" =>
              /\ answer.coach_kind = "dict"
              /\ answer.headline.k = "str" /\ answer.summary.k = "str"
              /\ response.coach.headline.len <= 120
        /\ response.coach.kind = "fallback" => response.coach = FallbackCoach(forecast)

----------------------------------------------------------------------------
(* One large purchase among nine ordinary ones *)

OneLargeAmongNine ==
    /\ Len(transactions) = 10
    /\ \A i \in 1..10 : transactions[i].ok /\ transactions[i].category = "Market"
    /\ \A i \in 1..9 : transactions[i].amount \in 4..6
    /\ transactions[10].amount = 500

\* C19: of ten transactions of one category, nine with amounts close to one
\* another and one a hundred times as large, detect reports the large one
\* with severity HIGH and with category_zscore and iqr among its detection
\* methods.
C19_LargePurchaseIsHigh ==
    (d_pc = "done" /\ OneLargeAmongNine) =>
        /\ ~detected.raised
        /\ \E k \in 1..Len(detected.anomalies) :
              LET a == detected.anomalies[k]
              IN /\ a.amount = 500 /\ a.date = 10
                 /\ a.severity = "HIGH"
                 /\ \E j \in 1..Len(a.detection_method) :
                       a.detection_method[j] = "category_zscore"
                 /\ \E j \in 1..Len(a.detection_method) :
                       a.detection_method[j] = "iqr"

----------------------------------------------------------------------------
(* Validation warnings and the enrichment of the cards *)

ParsedObject == e_ans.call = "ok" /\ e_ans.body = "dict"

IsText(v) == v.k = "str" /\ v.s.len > 0

\* the card as the stated rule leaves it: the last entry carrying its id
\* gives the title cut to 70, the summary cut to 180 and the first three
\* actions cut to 100 characters, each only if the entry holds it
Applied(card) ==
    LET idx == {i \in 1..Len(e_ans.card_enrichments) :
                  e_ans.card_enrichments[i].id = card.id}
        e == e_ans.card_enrichments[CHOOSE i \in idx : \A j \in idx : j <= i]
        n == Min(3, Len(e.actions))
    IN IF idx = {} THEN card
       ELSE [card EXCEPT
               !.title = IF IsText(e.title) THEN Prefix(e.title.s, 70) ELSE @,
               !.summary = IF IsText(e.summary) THEN Prefix(e.summary.s, 180) ELSE @,
               !.actions = IF e.actions # <<>> /\ \A j \in 1..n : e.actions[j].k = "str"
                           THEN [j \in 1..n |-> Prefix(e.actions[j].s, 100)]
                           ELSE @]

GatedByWarnings ==
    IF Warnings(e_ans, e_in) > 2
    THEN e_out.insights = e_in
    ELSE /\ Len(e_out.insights) = Len(e_in)
         /\ \A i \in 1..Len(e_in) : e_out.insights[i] = Applied(e_in[i])

----------------------------------------------------------------------------
(* The z_score and the detection_method of a reported anomaly *)

SameCategory(txs, tx) ==
    LET Test(t) == t.category = tx.category IN CalcStats(AmountsWhere(txs, Test))
SameMerchant(txs, tx) ==
    LET Test(t) == t.merchant = tx.merchant IN CalcStats(AmountsWhere(txs, Test))
AllAmounts(txs) ==
    LET Test(t) == TRUE IN CalcStats(AmountsWhere(txs, Test))

\* the detectors that triggered for tx, each with its z-value in hundredths
\* (the iqr detector has none)
Triggered(txs, tx) ==
    LET cs == SameCategory(txs, tx)
        ms == SameMerchant(txs, tx)
        gs == AllAmounts(txs)
    IN (IF ~cs.none /\ cs.dev > 0 /\ ZAbove(tx.amount, cs, 2, 1)
        THEN {[name |-> "category_zscore", pos |-> 1, z |-> Z100(tx.amount, cs)]}
        ELSE {})
       \cup (IF ~ms.none /\ ms.dev > 0 /\ ms.count >= 3 /\ ZAbove(tx.amount, ms, 2, 1)
             THEN {[name |-> "merchant_zscore", pos |-> 2, z |-> Z100(tx.amount, ms)]}
             ELSE {})
       \cup (IF ~cs.none /\ cs.iqr > 0 /\ 2 * tx.amount > 2 * cs.q3 + 3 * cs.iqr
             THEN {[name |-> "iqr", pos |-> 3, z |-> -1]}
             ELSE {})
       \cup (IF ~gs.none /\ gs.dev > 0 /\ ZAbove(tx.amount, gs, 5, 2)
             THEN {[name |-> "global_zscore", pos |-> 4, z |-> Z100(tx.amount, gs)]}
             ELSE {})

\* the z-values of an untriggered category and merchant (>= 3 observations)
\* detector, and 0.0
Untriggered(txs, tx) ==
    LET cs == SameCategory(txs, tx)
        ms == SameMerchant(txs, tx)
    IN {0} \cup (IF ~cs.none /\ cs.dev > 0 THEN {Z100(tx.amount, cs)} ELSE {})
           \cup (IF ~ms.none /\ ms.dev > 0 /\ ms.count >= 3
                 THEN {Z100(tx.amount, ms)} ELSE {})

\* a is the anomaly reported for tx
ReportedFor(a, tx) ==
    /\ a.merchant = tx.merchant /\ a.date = tx.date /\ a.category = tx.category
    /\ a.amount = Round2(tx.amount)

\* the names of the set T in the order category, merchant, iqr, global
NamesInOrder(T) ==
    LET Name(p) == IF \E t \in T : t.pos = p
                   THEN <<(CHOOSE t \in T : t.pos = p).name>> ELSE <<>>
    IN Name(1) \o Name(2) \o Name(3) \o Name(4)

IsMaxOf(z, Z) == z \in Z /\ \A v \in Z : v <= z

ZValues(T) == {t.z : t \in {u \in T : u.name # "iqr"}}

\* C21: for every anomaly returned by detect, z_score is the maximum
\* z-value among the z-score detectors that triggered for the transaction
\* (category, merchant with >= 3 observations, global above threshold +
\* 0.5) and detection_method joins, in the order category_zscore,
\* merchant_zscore, iqr, global_zscore, exactly the detectors that triggered.
C21_ZScoreIsMaxTriggered ==
    (d_pc = "done" /\ ~detected.raised) =>
        \A k \in 1..Len(detected.anomalies) :
            \E i \in 1..Len(transactions) :
                LET a == detected.anomalies[k]
                    T == Triggered(transactions, transactions[i])
                IN /\ ReportedFor(a, transactions[i])
                   /\ a.detection_method = NamesInOrder(T)
                   /\ IsMaxOf(a.z_score, ZValues(T))

\* C21 as the code has it: the same for an anomaly with a triggered z-score
\* detector; for an anomaly that only the iqr detector flagged, z_score is
\* the largest of 0.0 and the z-values of the category detector and of the
\* merchant detector (>= 3 observations), none of which is above the
\* threshold.
C21_ZScoreIsMaxTriggeredOrUntriggered ==
    (d_pc = "done" /\ ~detected.raised) =>
        \A k \in 1..Len(detected.anomalies) :
            \E i \in 1..Len(transactions) :
                LET a == detected.anomalies[k]
                    T == Triggered(transactions, transactions[i])
                IN /\ ReportedFor(a, transactions[i])
                   /\ a.detection_method = NamesInOrder(T)
                   /\ T # {}
                   /\ IF ZValues(T) # {}
                      THEN IsMaxOf(a.z_score, ZValues(T))
                      ELSE /\ IsMaxOf(a.z_score, Untriggered(transactions, transactions[i]))
                           /\ a.z_score <= 200

C21_Witness ==
    /\ d_pc = "done" /\ ~detected.raised
    /\ \E k, l \in 1..Len(detected.anomalies) :
          /\ Head(detected.anomalies[k].detection_method) = "category_zscore"
          /\ detected.anomalies[k].z_score > 200
          /\ detected.anomalies[l].detection_method = <<"iqr">>
          /\ detected.anomalies[l].z_score \in 1..200

----------------------------------------------------------------------------
(* The end of detect (sort, cut to 15) and the cut to 10 of run_analysis,   *)
(* on lists of flagged purchases as the loop of detect leaves them         *)

MaxFlagged == 17

\* what the loop reports for a purchase flagged by the iqr test alone, by
\* the z tests alone, by both, and by z tests above 3.0
FlaggedKinds ==
    <<[severity |-> "MEDIUM", z_score |-> 178, iqr_flag |-> TRUE,
       detection_method |-> <<"iqr">>],
      [severity |-> "MEDIUM", z_score |-> 204, iqr_flag |-> FALSE,
       detection_method |-> <<"category_zscore", "merchant_zscore">>],
      [severity |-> "HIGH", z_score |-> 202, iqr_flag |-> TRUE,
       detection_method |-> <<"category_zscore", "merchant_zscore", "iqr">>],
      [severity |-> "HIGH", z_score |-> 310, iqr_flag |-> FALSE,
       detection_method |-> <<"category_zscore", "merchant_zscore">>]>>

\* the i-th flagged purchase of a list, of the kind with the given number
FlaggedPurchase(i, kind) ==
    [merchant |-> "market", amount |-> 36, date |-> i, category |-> "Market",
     z_score |-> FlaggedKinds[kind].z_score, iqr_flag |-> FlaggedKinds[kind].iqr_flag,
     detection_method |-> FlaggedKinds[kind].detection_method,
     severity |-> FlaggedKinds[kind].severity]

\* n flagged purchases whose kinds follow one another with stride a from b
FlaggedList(n, a, b) ==
    [i \in 1..n |-> FlaggedPurchase(i, ((a * i + b) % Len(FlaggedKinds)) + 1)]

NoAnomalies == [returned |-> <<>>, response |-> <<>>]

InitAnomalies ==
    /\ c_pc = "call"
    /\ \E n \in 0..MaxFlagged : \E a, b \in 0..(Len(FlaggedKinds) - 1) :
          c_in = FlaggedList(n, a, b)
    /\ c_out = NoAnomalies
    /\ RunIdle /\ EnrichIdle /\ DetectIdle /\ ForecastIdle

\* anomalies.sort(...); return anomalies[:15]
SortAndCut ==
    /\ c_pc = "call"
    /\ c_out' = [c_out EXCEPT !.returned = Take(SortAnomalies(c_in), DetectCap)]
    /\ c_pc' = "returned"
    /\ UNCHANGED <<c_in, runVars, enrVars, detVars, fcVars>>

\* "anomalies": anomalies[:10] of the response
KeepAnomalies ==
    /\ c_pc = "returned"
    /\ c_out' = [c_out EXCEPT !.response = Take(c_out.returned, AnomaliesCap)]
    /\ c_pc' = "responded"
    /\ UNCHANGED <<c_in, runVars, enrVars, detVars, fcVars>>

NextAnomalies == SortAndCut \/ KeepAnomalies

SpecAnomalies == InitAnomalies /\ [][NextAnomalies]_vars

\* a is listed strictly before b by the stated order
Outranks(a, b) ==
    \/ a.severity = "HIGH" /\ b.severity # "HIGH"
    \/ a.severity = b.severity /\ a.z_score > b.z_score

\* C22: the list returned by detect has at most 15 entries, lists every
\* HIGH anomaly before every MEDIUM one and, within one severity, is in
\* non-increasing z_score order; a flagged transaction that was left out
\* ranks no higher than any one kept; response.anomalies is the first 10
\* entries of the list.
C22_SortedThenTruncated ==
    (c_pc \in {"returned", "responded"}) =>
        LET kept == c_out.returned
        IN /\ Len(kept) = Min(15, Len(c_in))
           /\ \A i, j \in 1..Len(kept) : i < j => ~Outranks(kept[j], kept[i])
           /\ \A i \in 1..Len(kept) : \E j \in 1..Len(c_in) : kept[i] = c_in[j]
           /\ \A i, j \in 1..Len(kept) : kept[i] = kept[j] => i = j
           /\ \A i \in 1..Len(c_in) :
                 (\A j \in 1..Len(kept) : kept[j] # c_in[i])
                 => \A j \in 1..Len(kept) : ~Outranks(c_in[i], kept[j])
           /\ c_pc = "responded" =>
                 /\ Len(c_out.response) = Min(10, Len(kept))
                 /\ \A i \in 1..Len(c_out.response) : c_out.response[i] = kept[i]

C22_Witness ==
    /\ c_pc = "responded"
    /\ Len(c_in) > 15
    /\ Len(c_out.returned) = 15
    /\ Len(c_out.response) = 10
    /\ c_in[1].severity = "MEDIUM" /\ c_in[Len(c_in)].severity = "HIGH"
    /\ c_out.returned[1].severity = "HIGH"
    /\ c_out.returned[15].severity = "MEDIUM"
    /\ \E i, j \in 1..15 :
          /\ i < j
          /\ c_out.returned[i].severity = c_out.returned[j].severity
          /\ c_out.returned[i].z_score > c_out.returned[j].z_score

----------------------------------------------------------------------------
(* The trend of a forecast *)

\* the totals of the input in month order
TotalsByMonth ==
    LET srt == SortByMonth(monthly_totals) IN [i \in 1..Len(srt) |-> srt[i].total]

\* C23: over the totals in month order, with n >= 3 the trend is up when
\* last - third-from-last is greater than 5% of the mean of the last 3
\* totals, down when it is less than minus 5% of that mean and stable
\* otherwise; with n = 2 the two totals are compared directly; totals
\* 1000, 1000, 2500 give up.
C23_TrendClassification ==
    (f_pc = "done" /\ Len(monthly_totals) >= 2) =>
        LET v == TotalsByMonth
            n == Len(v)
            last3 == v[n] + v[n - 1] + v[n - 2]
            diff == v[n] - v[n - 2]
        IN fc_out.trend =
             IF n >= 3
             THEN IF 60 * diff > last3 THEN "up"
                  ELSE IF 60 * diff < -last3 THEN "down" ELSE "stable"
             ELSE IF v[2] > v[1] THEN "up"
                  ELSE IF v[2] < v[1] THEN "down" ELSE "stable"

\* totals in the proportion 1000 : 1000 : 2500, given out of month order
C23_Witness ==
    /\ f_pc = "done"
    /\ TotalsByMonth = <<2, 2, 5>>
    /\ monthly_totals[1].total = 5
    /\ fc_out.trend = "up"

----------------------------------------------------------------------------
(* The estimate of a forecast with seasonality *)

\* seasonality is recorded for the totals v in month order
SeasonalityRecorded(v) ==
    LET n == Len(v)
    IN /\ n >= 12
       /\ v[n - 11] > 0
       /\ 20 * Abs(v[n] - v[n - 11]) > 3 * v[n - 11]

\* x is y rounded to 2 decimals
IsRounded(x, y) ==
    /\ FLe(FAdd(y, Frac(-1, 200)), x)
    /\ FLe(x, FAdd(y, Frac(1, 200)))

\* C24: when seasonality is recorded (n >= 12, the total 12 positions back
\* is positive and latest / that total deviates from 1.0 by more than 15%),
\* the returned next_month_estimate is, to the 2 decimals it is returned
\* with, the clamped blend times (seasonal_factor + 1) / 2, with no second
\* clamp; the witness is a series whose estimate lies outside
\* [0.5, 2.0] x mean(last 3 totals).
C24_SeasonalityAfterClamp ==
    (f_pc = "done" /\ Blended(fc_out)) =>
        LET v == TotalsByMonth
            n == Len(v)
        IN /\ fc_out.seasonal = SeasonalityRecorded(v)
           /\ fc_out.seasonal =>
                 \E tie \in BOOLEAN :
                    LET seasonal_factor == RoundHundredths(Frac(v[n], v[n - 11]), tie)
                    IN IsRounded(Estimate(fc_out),
                                 FMul(fc_out.blended, Frac(seasonal_factor + 100, 200)))

\* eleven months of one total and then five times as much: the estimate is
\* above 2.0 x the mean of the last three totals by more than the rounding
C24_Witness ==
    /\ f_pc = "done"
    /\ fc_out.seasonal
    /\ Len(monthly_totals) = 12
    /\ InBand(fc_out.blended, fc_out)
    /\ FLt(FAdd(BandHi(fc_out), Frac(1, 1)), Estimate(fc_out))

----------------------------------------------------------------------------
(* ForecastEngine.forecast with per-category forecasts, called on a list of *)
(* monthly totals and on a permutation of it                               *)

MaxOrderMonths == 3

OrderCategories == <<"Market", "Iade">>

\* a monthly entry: with has_categories = FALSE it has no "categories" key;
\* otherwise categories[c] is the amount of OrderCategories[c], 0 also for
\* a category the entry does not name
OrderEntries ==
    [total : {1, 2}, has_categories : {TRUE},
     categories : {<<0, 0>>, <<1, 0>>, <<0, -1>>}]
    \cup [total : {1, 2}, has_categories : {FALSE}, categories : {<<0, 0>>}]

\* the bijections of 1..k
Reorderings(k) ==
    {p \in [1..k -> 1..k] : \A i, j \in 1..k : p[i] = p[j] => i = j}

\* cat_forecasts of forecast: computed only if the last entry of the list
\* as given has a "categories" key; one rounded EMA, over the entries in
\* month order, for every category with a value above 0; None (the empty
\* set) if there is none
category_forecasts(mts, tie_up) ==
    LET srt == SortByMonth(mts)
        cat_vals(c) == [i \in 1..Len(srt) |-> srt[i].categories[c]]
        kept == {c \in 1..Len(OrderCategories) :
                   \E i \in 1..Len(srt) : cat_vals(c)[i] > 0}
    IN IF mts # <<>> /\ mts[Len(mts)].has_categories
       THEN {<<OrderCategories[c], RoundHundredths(ema(cat_vals(c), 7, 20), tie_up)>> :
               c \in kept}
       ELSE {}

\* the result of forecast: that of the totals (estimate, trend, confidence,
\* method) and the category forecasts
ForecastWithCategories(mts, tie_up) ==
    [totals |-> ForecastEngine_forecast(
                    [i \in 1..Len(mts) |-> [month |-> mts[i].month, total |-> mts[i].total]],
                    tie_up),
     category_forecasts |-> category_forecasts(mts, tie_up)]

InitOrder ==
    /\ c_pc = "call"
    /\ \E k \in 2..MaxOrderMonths : \E p \in Reorderings(k) :
          \E es \in [1..k -> OrderEntries] :
             LET given == [i \in 1..k |->
                             [month |-> i, total |-> es[i].total,
                              has_categories |-> es[i].has_categories,
                              categories |-> es[i].categories]]
             IN c_in = <<given, [i \in 1..k |-> given[p[i]]]>>
    /\ c_out = <<>>
    /\ RunIdle /\ EnrichIdle /\ DetectIdle /\ ForecastIdle

\* forecast on the list and on its permutation; both compute the same
\* floats from the same sorted values, so a rounding tie falls the same way
OrderCall ==
    /\ c_pc = "call"
    /\ \E tie_up \in BOOLEAN :
          c_out' = [j \in 1..2 |-> ForecastWithCategories(c_in[j], tie_up)]
    /\ c_pc' = "returned"
    /\ UNCHANGED <<c_in, runVars, enrVars, detVars, fcVars>>

NextOrder == OrderCall

SpecOrder == InitOrder /\ [][NextOrder]_vars

\* C25: forecast returns the same result, the per-category forecasts
\* included, for every permutation of the same monthly entries (distinct
\* month keys), and there is one forecast for every category with a
\* nonzero value.
C25_OrderOfMonthsIrrelevant ==
    c_pc = "returned" =>
        /\ c_out[1] = c_out[2]
        /\ \A c \in 1..Len(OrderCategories) :
              (\E i \in 1..Len(c_in[1]) :
                  c_in[1][i].has_categories /\ c_in[1][i].categories[c] # 0)
              => \E f \in c_out[1].category_forecasts : f[1] = OrderCategories[c]

----------------------------------------------------------------------------
(* PatternMiner.recurring_payments                                         *)

MaxPayments == 3       \* most payments to the merchant under examination
MaxOthers == 10        \* other merchants, each of two payments of 200
MaxNameless == 2       \* transactions without a merchant, if any

MinRecurringTx == 4    \* len(transactions) < 4
RecurringCap == 10     \* recurring[:10]
MonthlyGapLo == 20     \* 20 <= avg_diff
MonthlyGapHi == 40     \* avg_diff <= 40
TolerancePct == 15     \* tolerance_pct = 0.15, in hundredths

\* a date that strptime rejects; the others are day numbers
BadDate == -1
PaymentAmounts == {0, 85, 115}
PaymentDates == {BadDate, 0, 20, 60}

\* merchant 0 is the empty name, 1 the merchant under examination
Examined == 1

\* two payments of 200, thirty days apart, to each of m other merchants
OtherPayments(m) ==
    [i \in 1..(2 * m) |->
        [merchant |-> 2 + ((i - 1) \div 2), amount |-> 200, date |-> 30 * ((i - 1) % 2)]]

\* by_merchant: the non-empty merchants in the order of their first
\* transaction
RECURSIVE MerchantsOf(_, _)
MerchantsOf(txs, seen) ==
    IF txs = <<>> THEN <<>>
    ELSE LET mer == Head(txs).merchant
         IN IF mer = 0 \/ mer \in seen THEN MerchantsOf(Tail(txs), seen)
            ELSE <<mer>> \o MerchantsOf(Tail(txs), seen \cup {mer})

PaymentsTo(txs, mer) == SelectSeq(txs, LAMBDA t : t.merchant = mer)

\* all(abs(a - avg_amt) / avg_amt <= tolerance_pct), avg_amt = total / n > 0
all_similar(amounts) ==
    LET n == Len(amounts)
        total == SeqSum(amounts)
    IN \A i \in 1..n : 100 * Abs(amounts[i] * n - total) <= TolerancePct * total

\* the parsed dates, sorted
ParsedDates(txs) ==
    Sorted(SelectSeq([i \in 1..Len(txs) |-> txs[i].date], LAMBDA d : d # BadDate))

\* is_monthly: 20 <= mean of the gaps of consecutive dates <= 40
AnyGap(dates) == Len(dates) >= 2
is_monthly(dates) ==
    /\ Len(dates) >= 2
    /\ LET diffs == [i \in 1..(Len(dates) - 1) |-> dates[i + 1] - dates[i]]
       IN /\ MonthlyGapLo * Len(diffs) <= SeqSum(diffs)
          /\ SeqSum(diffs) <= MonthlyGapHi * Len(diffs)

\* the loop body of recurring_payments for one merchant: the entry it
\* appends (costs in hundredths), or <<>>
RecurringEntry(txs, mer, tie_up) ==
    LET own == PaymentsTo(txs, mer)
        amounts == [i \in 1..Len(own) |-> own[i].amount]
        avg_amt == Frac(SeqSum(amounts), Len(own))
        monthly == is_monthly(ParsedDates(own))
    IN IF Len(own) < 2 THEN <<>>
       ELSE IF avg_amt.num <= 0 THEN <<>>
       ELSE IF all_similar(amounts) /\ (monthly \/ Len(own) >= 3)
       THEN <<[merchant |-> mer,
               avg_amount |-> RoundHundredths(avg_amt, tie_up),
               frequency |-> Len(own),
               is_monthly |-> monthly,
               monthly_cost |-> RoundHundredths(avg_amt, tie_up),
               yearly_cost |-> RoundHundredths(FMul(avg_amt, Frac(12, 1)), tie_up)]>>
       ELSE <<>>

\* recurring.sort(key=yearly_cost, reverse=True): stable
RECURSIVE InsertRecurring(_, _)
InsertRecurring(x, s) ==
    IF s = <<>> THEN <<x>>
    ELSE IF Head(s).yearly_cost >= x.yearly_cost
    THEN <<Head(s)>> \o InsertRecurring(x, Tail(s))
    ELSE <<x>> \o s

RECURSIVE SortRecurring(_)
SortRecurring(s) ==
    IF s = <<>> THEN <<>>
    ELSE InsertRecurring(s[Len(s)], SortRecurring(SubSeq(s, 1, Len(s) - 1)))

RECURSIVE RecurringOf(_, _, _)
RecurringOf(txs, mers, tie_up) ==
    IF mers = <<>> THEN <<>>
    ELSE RecurringEntry(txs, Head(mers), tie_up) \o RecurringOf(txs, Tail(mers), tie_up)

NoRecurring == [none |-> TRUE, items |-> <<>>, total_monthly |-> 0, total_yearly |-> 0]

TooFewForRecurring(txs) == Len(txs) < MinRecurringTx

\* PatternMiner.recurring_payments
recurring_payments(txs, tie_up) ==
    IF TooFewForRecurring(txs) THEN NoRecurring
    ELSE LET recurring == RecurringOf(txs, MerchantsOf(txs, {}), tie_up)
         IN IF recurring = <<>> THEN NoRecurring
            ELSE [none |-> FALSE,
                  items |-> Take(SortRecurring(recurring), RecurringCap),
                  total_monthly |-> SeqSum([i \in 1..Len(recurring) |-> recurring[i].monthly_cost]),
                  total_yearly |-> SeqSum([i \in 1..Len(recurring) |-> recurring[i].yearly_cost])]

\* the transactions: k payments to the examined merchant, f without a
\* merchant, and none or MaxOthers other merchants
InitRecurring ==
    /\ c_pc = "call"
    /\ \E k \in 0..MaxPayments : \E f \in {0, MaxNameless} : \E m \in {0, MaxOthers} :
          \E am \in [1..k -> PaymentAmounts] : \E ds \in [1..k -> PaymentDates] :
             c_in = [i \in 1..k |-> [merchant |-> Examined, amount |-> am[i], date |-> ds[i]]]
                    \o [i \in 1..f |-> [merchant |-> 0, amount |-> 100, date |-> 0]]
                    \o OtherPayments(m)
    /\ c_out = <<>>
    /\ RunIdle /\ EnrichIdle /\ DetectIdle /\ ForecastIdle

RecurringCall ==
    /\ c_pc = "call"
    /\ \E tie_up \in BOOLEAN : c_out' = recurring_payments(c_in, tie_up)
    /\ c_pc' = "returned"
    /\ UNCHANGED <<c_in, runVars, enrVars, detVars, fcVars>>

NextRecurring == RecurringCall

SpecRecurring == InitRecurring /\ [][NextRecurring]_vars

\* the payments to the examined merchant and what the result says of it
OwnPayments == PaymentsTo(c_in, Examined)
OwnAmounts == [i \in 1..Len(OwnPayments) |-> OwnPayments[i].amount]
OwnMean == Frac(SeqSum(OwnAmounts), Len(OwnPayments))
Reported == \E i \in 1..Len(c_out.items) : c_out.items[i].merchant = Examined
Within15Pct ==
    \A i \in 1..Len(OwnAmounts) :
        100 * Abs(OwnAmounts[i] * Len(OwnAmounts) - SeqSum(OwnAmounts))
            <= 15 * Abs(SeqSum(OwnAmounts))
GapIsMonthly ==
    LET dates == ParsedDates(OwnPayments)
    IN /\ Len(dates) >= 2
       /\ 20 * (Len(dates) - 1) <= dates[Len(dates)] - dates[1]
       /\ dates[Len(dates)] - dates[1] <= 40 * (Len(dates) - 1)
Qualifies ==
    /\ Len(OwnPayments) >= 1
    /\ Within15Pct
    /\ (GapIsMonthly \/ Len(OwnPayments) >= 3)
CostsAreMean ==
    \A i \in 1..Len(c_out.items) :
        c_out.items[i].merchant = Examined =>
            /\ \E t \in BOOLEAN : c_out.items[i].monthly_cost = RoundHundredths(OwnMean, t)
            /\ \E t \in BOOLEAN :
                  c_out.items[i].yearly_cost = RoundHundredths(FMul(OwnMean, Frac(12, 1)), t)

OtherMerchants == {c_in[i].merchant : i \in 1..Len(c_in)} \ {0, Examined}

----------------------------------------------------------------------------
(* The next_actions of a response and its insights                         *)

\* the ids of the cards of the response
ResponseCardIds == {response.insights[i].id : i \in 1..Len(response.insights)}

\* C27: every entry of response.next_actions has a source_insight that is
\* null (0, the generic defaults) or the id of a card of response.insights
\* of the same response, also when more than 12 cards were built.
C27_ActionsPointToReturnedCards ==
    response.status = "ok" =>
        \A k \in 1..Len(response.next_actions) :
            \/ response.next_actions[k].source_insight = 0
            \/ response.next_actions[k].source_insight \in ResponseCardIds

----------------------------------------------------------------------------
(* PatternMiner.spending_velocity                                          *)

MaxVelocityTx == 2     \* longest transaction list

\* the date of a transaction: outside the period, a day that int() rejects,
\* a date shorter than 10 characters (day 1), or the day number
OutsidePeriod == -3
BadDay == -2
ShortDate == -1
VelocityDays == {OutsidePeriod, BadDay, ShortDate, 0, 3, 31}

\* the amounts: in TL, or (tiny) in multiples of the smallest positive
\* float, 2^-1074, where every operation rounds to a whole multiple
VelocityAmounts == {-2, 0, 2, 16}

\* the days of the month of the period; NoPeriod is an empty or
\* unparsable period
NoPeriod == 0
MonthLengths == {NoPeriod, 28, 31}

\* the nearest integer of a fraction; a tie goes to the even one, or away
\* from zero when the float operand was above its exact value
RoundToUnit(x, tie_away) ==
    LET fl == x.num \div x.den
        rem2 == 2 * (x.num % x.den)
    IN IF rem2 < x.den THEN fl
       ELSE IF rem2 > x.den THEN fl + 1
       ELSE IF tie_away THEN (IF x.num < 0 THEN fl ELSE fl + 1)
       ELSE IF fl % 2 = 0 THEN fl ELSE fl + 1

\* the float result of an operation whose exact result is x: of ordinary
\* magnitude it is x up to a relative error of 2^-53, taken as x; among the
\* multiples of 2^-1074 it is x rounded to a whole multiple
Fl(x, tiny, tie_away) == IF tiny THEN Frac(RoundToUnit(x, tie_away), 1) ELSE x

\* day_num of a transaction of the period
DayNum(day) == IF day = ShortDate THEN 1 ELSE day

\* total_spent * (days_in_month / max(latest_day, 1)) * 1.1; the float 1.1
\* is above 11/10
FlatAllowance(total_spent, days_in_month, latest_day, tiny) ==
    Fl(FMul(total_spent, Frac(11, 10)), tiny, TRUE)
Allowance(total_spent, days_in_month, latest_day, tiny) ==
    LET ratio == Frac(days_in_month, Max(latest_day, 1))
        extrapolated == Fl(FMul(total_spent, ratio), tiny, FALSE)
    IN Fl(FMul(extrapolated, Frac(11, 10)), tiny, TRUE)

NoVelocity ==
    [none |-> TRUE, days_elapsed |-> 0, days_in_month |-> 0,
     current_total |-> Frac(0, 1), projected_total |-> Frac(0, 1), on_track |-> FALSE]

\* PatternMiner.spending_velocity
spending_velocity(txs, days_in_month, tiny) ==
    LET period_txs == SelectSeq(txs, LAMBDA tx : tx.day # OutsidePeriod)
        total_spent == Frac(SeqSum([i \in 1..Len(period_txs) |-> period_txs[i].amount]), 1)
        days == {DayNum(period_txs[i].day) :
                    i \in {j \in 1..Len(period_txs) : period_txs[j].day # BadDay}}
        latest_day == CHOOSE d \in days : \A e \in days : e <= d
        daily_rate == Fl(FMul(total_spent, Frac(1, Max(latest_day, 1))), tiny, FALSE)
        projected_total == Fl(FMul(daily_rate, Frac(days_in_month, 1)), tiny, FALSE)
    IN IF txs = <<>> \/ days_in_month = NoPeriod THEN NoVelocity
       ELSE IF period_txs = <<>> THEN NoVelocity
       ELSE IF days = {} THEN NoVelocity
       ELSE [none |-> FALSE,
             days_elapsed |-> latest_day,
             days_in_month |-> days_in_month,
             current_total |-> total_spent,
             projected_total |-> projected_total,
             on_track |-> FLe(projected_total,
                              Allowance(total_spent, days_in_month, latest_day, tiny))]

InitVelocity ==
    /\ c_pc = "call"
    /\ \E n \in 0..MaxVelocityTx : \E tiny \in BOOLEAN : \E dim \in MonthLengths :
          \E am \in [1..n -> VelocityAmounts] : \E ds \in [1..n -> VelocityDays] :
             c_in = [transactions |-> [i \in 1..n |-> [amount |-> am[i], day |-> ds[i]]],
                     days_in_month |-> dim, tiny |-> tiny]
    /\ c_out = <<>>
    /\ RunIdle /\ EnrichIdle /\ DetectIdle /\ ForecastIdle

VelocityCall ==
    /\ c_pc = "call"
    /\ c_out' = spending_velocity(c_in.transactions, c_in.days_in_month, c_in.tiny)
    /\ c_pc' = "returned"
    /\ UNCHANGED <<c_in, runVars, enrVars, detVars, fcVars>>

NextVelocity == VelocityCall

SpecVelocity == InitVelocity /\ [][NextVelocity]_vars

\* the total of the period, as the input gives it
PeriodTotal ==
    SeqSum([i \in 1..Len(c_in.transactions) |->
              IF c_in.transactions[i].day = OutsidePeriod THEN 0
              ELSE c_in.transactions[i].amount])

\* C28: whenever spending_velocity returns a result for a non-negative
\* period total, on_track is true, whatever the amounts and the latest day;
\* on_track is false only when the period total is negative.
C28_OnTrackUnlessNegative ==
    (c_pc = "returned" /\ ~c_out.none) =>
        /\ PeriodTotal >= 0 => c_out.on_track
        /\ ~c_out.on_track => PeriodTotal < 0

\* C28 as amended: the same for a total that is 0 or of ordinary magnitude;
\* a positive total of a few multiples of the smallest float can give
\* on_track false.
C28_OnTrackUnlessNegativeOrTiny ==
    (c_pc = "returned" /\ ~c_out.none) =>
        /\ (PeriodTotal = 0 \/ (PeriodTotal > 0 /\ ~c_in.tiny)) => c_out.on_track
        /\ ~c_out.on_track => (PeriodTotal < 0 \/ (PeriodTotal > 0 /\ c_in.tiny))

C28_Witness ==
    /\ c_pc = "returned" /\ ~c_out.none
    /\ ~c_in.tiny
    /\ PeriodTotal = 18
    /\ c_out.days_elapsed = 3 /\ c_out.days_in_month = 31
    /\ c_out.projected_total = Frac(186, 1)
    /\ c_out.on_track

----------------------------------------------------------------------------
(* The budgets that from_budget_alerts marks HIGH and those that            *)
(* compute_health_score counts as over budget                              *)

\* the HIGH cards of from_budget_alerts in the invocation: the forecast card
\* has the same type, the evidence tells them apart (type, priority and
\* evidence of a card are never rewritten)
HighBudgetCards ==
    {i \in 1..Len(all_insights) :
        /\ all_insights[i].type = "budget_forecast"
        /\ Len(all_insights[i].evidence) = 1
        /\ all_insights[i].priority = "HIGH"}

\* the over-budget counts that give the budget points of the health score
ScoredOverCounts ==
    {n \in 0..Len(payload.budgets) :
        BudgetPoints(n, Len(payload.budgets)) = health_score.breakdown.budget}

\* C29: a budget gets a HIGH budget card exactly when compute_health_score
\* counts it as over budget, also at pct = 100: the budget points of the
\* health score are those of as many exceeded budgets as there are HIGH
\* budget cards.
C29_BudgetCardsAgreeWithHealthScore ==
    (/\ pc = "done" /\ response.status = "ok"
     /\ health_score.computed
     /\ payload.budgets # <<>>
     /\ "budget_insights" \notin failed) =>
        Cardinality(HighBudgetCards) \in ScoredOverCounts

----------------------------------------------------------------------------
(* handle_ai_analyze of the backend: the stored analysis of a user and a   *)
(* period, its data signature and the cache hit                            *)

MaxReceipts == 2       \* most receipts of the period
MaxTicks == 2          \* the clock stops after this many steps

AI_CACHE_TTL_SECONDS == 21600
TickSeconds == AI_CACHE_TTL_SECONDS   \* one step of the clock

Personas == {"friendly", "coach"}

\* the tables the payload of the engine is built from: the receipts of the
\* period, those of the earlier months, budgets, financial_goals, incomes
Tables == {"receipts", "earlier_receipts", "budgets", "goals", "incomes"}

\* _compute_data_signature: the md5 of the four values written out, taken
\* as a value that is equal exactly when the four values are (no collision)
data_signature(total_amount, receipt_count, last_upd, persona) ==
    [total |-> total_amount, count |-> receipt_count, last_upd |-> last_upd,
     persona |-> persona]

\* the __meta__ and __result__ rows of ai_insights for the user and period
NoStored ==
    [present |-> FALSE, data_sig |-> data_signature(0, 0, 0, ""), generated_at |-> 0,
     insufficient_data |-> FALSE]

NoReply ==
    [kind |-> "none", useCache |-> FALSE, forceRecompute |-> FALSE, persona |-> "",
     age_seconds |-> 0]

\* the tables at construction: no receipt, nothing stored; changed is the
\* set of tables written since the stored result was computed
InitCache ==
    /\ c_pc = "idle"
    /\ c_in = [receipts |-> [count |-> 0, total |-> 0, last_upd |-> 0],
               changed |-> {}, now |-> 0, stored |-> NoStored]
    /\ c_out = NoReply
    /\ RunIdle /\ EnrichIdle /\ DetectIdle /\ ForecastIdle

\* what every other route and the clock leave alone; the reply of the last
\* request has been delivered
Delivered ==
    /\ c_pc' = "idle" /\ c_out' = NoReply
    /\ UNCHANGED <<runVars, enrVars, detVars, fcVars>>

\* a receipt of the period is added: updated_at is NOW()
AddReceipt ==
    /\ c_in.receipts.count < MaxReceipts
    /\ c_in' = [c_in EXCEPT !.receipts =
                   [count |-> @.count + 1, total |-> @.total + 100, last_upd |-> c_in.now],
                            !.changed = @ \cup {"receipts"}]
    /\ Delivered

\* a row of another table is written
ChangeOther ==
    /\ \E table \in Tables \ {"receipts"} :
          c_in' = [c_in EXCEPT !.changed = @ \cup {table}]
    /\ Delivered

Tick ==
    /\ c_in.now < MaxTicks * TickSeconds
    /\ c_in' = [c_in EXCEPT !.now = @ + TickSeconds]
    /\ Delivered

\* the signature of the current data and the test of the cache hit
CurrentSignature(db, persona) ==
    data_signature(db.receipts.total, db.receipts.count, db.receipts.last_upd, persona)

CacheHit(db, use_cache, force_recompute, persona) ==
    /\ use_cache /\ ~force_recompute
    /\ db.stored.present
    /\ db.stored.data_sig = CurrentSignature(db, persona)
    /\ db.now - db.stored.generated_at <= AI_CACHE_TTL_SECONDS

\* handle_ai_analyze; engine_ok = FALSE is an engine answer that is not an
\* object or an exception of the invocation (status 500, nothing stored)
handle_ai_analyze ==
    \E use_cache, force_recompute, engine_ok \in BOOLEAN : \E persona \in Personas :
        LET req == [NoReply EXCEPT !.useCache = use_cache,
                                   !.forceRecompute = force_recompute,
                                   !.persona = persona]
            sig == CurrentSignature(c_in, persona)
        IN /\ c_pc' = "served"
           /\ UNCHANGED <<runVars, enrVars, detVars, fcVars>>
           /\ IF c_in.receipts.count < 1
              THEN /\ c_in' = [c_in EXCEPT !.stored =
                                  [present |-> TRUE, data_sig |-> sig,
                                   generated_at |-> c_in.now,
                                   insufficient_data |-> TRUE],
                                           !.changed = {}]
                   /\ c_out' = [req EXCEPT !.kind = "insufficient_data"]
              ELSE IF CacheHit(c_in, use_cache, force_recompute, persona)
              THEN /\ c_out' = [req EXCEPT !.kind = "cache_hit",
                                           !.age_seconds = c_in.now - c_in.stored.generated_at]
                   /\ UNCHANGED c_in
              ELSE IF engine_ok
              THEN /\ c_in' = [c_in EXCEPT !.stored =
                                  [present |-> TRUE, data_sig |-> sig,
                                   generated_at |-> c_in.now,
                                   insufficient_data |-> FALSE],
                                           !.changed = {}]
                   /\ c_out' = [req EXCEPT !.kind = "computed"]
              ELSE /\ c_out' = [req EXCEPT !.kind = "error"]
                   /\ UNCHANGED c_in

NextCache == AddReceipt \/ ChangeOther \/ Tick \/ handle_ai_analyze

SpecCache == InitCache /\ [][NextCache]_vars

\* C30: a stored analysis is served as a cache hit only if useCache is
\* true, forceRecompute is false, the stored result is no older than the
\* TTL and none of the data sent to the engine has changed since it was
\* stored: the receipts of the period and of the earlier months, budgets,
\* goals, incomes and persona.
C30_CacheHitOnlyIfNothingChanged ==
    (c_pc = "served" /\ c_out.kind = "cache_hit") =>
        /\ c_out.useCache /\ ~c_out.forceRecompute
        /\ c_out.age_seconds <= AI_CACHE_TTL_SECONDS
        /\ c_in.stored.data_sig.persona = c_out.persona
        /\ c_in.changed = {}

====
